---- MODULE Spec2Model ----
(***************************************************************************)
(* The rules engine of DalmutiWeb (a Great-Dalmuti card game on            *)
(* boardgame.io): the moves of src/src/game/moves.ts, the phases and the   *)
(* turn order of src/src/game/phases.ts, the deck of src/src/game/deck.ts  *)
(* and the setup of DalmutiGame.ts (src/unnamed/part_002).                 *)
(*                                                                         *)
(* G is the game state (DalmutiState), ctx the part of boardgame.io's ctx  *)
(* the game reads.  A client action is a move (one action per move) that   *)
(* is followed, when it was accepted, by the engine's processing of the    *)
(* phase and turn hooks (Flow).  pc tells whether the hooks are pending.   *)
(***************************************************************************)
EXTENDS Integers, Sequences, FiniteSets, TLC

VARIABLES G, ctx, pc, last

vars == <<G, ctx, pc, last>>

(***************************************************************************)
(* Bounds of the model.                                                    *)
(***************************************************************************)
\* highest card rank of the deck (the game's deck has ranks 1..12)
MaxRank == 3
\* the seeds of the random source are 0..MaxSeed
MaxSeed == 1
\* longest list of card ids a caller submits
MaxIds == 2
\* rounds played in full; the round after them stops when its play phase begins
MaxRounds == 1

\* a match has minPlayers..minPlayers+ExtraPlayers players
ExtraPlayers == 0
\* most players of a match of SpecStart (which ends at the first play phase)
MaxStartPlayers == 5

\* DalmutiGame.minPlayers
minPlayers == 4
\* DalmutiGame.maxPlayers
maxPlayers == 8

null == 0 - 1

(***************************************************************************)
(* Sequence helpers (Array.includes, Array.filter, Array.reverse).         *)
(***************************************************************************)
includes(s, x) == \E i \in 1..Len(s) : s[i] = x

reverse(s) == [i \in 1..Len(s) |-> s[Len(s) + 1 - i]]

Range(s) == {s[i] : i \in 1..Len(s)}

\* the cards of hand whose id is not in ids, in hand order
withoutIds(hand, ids) == SelectSeq(hand, LAMBDA c : c.id \notin ids)

\* Array.find: the first card of hand with this id
findCard(hand, id) == hand[CHOOSE j \in 1..Len(hand) :
                            /\ hand[j].id = id
                            /\ \A k \in 1..(j - 1) : hand[k].id # id]

hasCard(hand, id) == \E j \in 1..Len(hand) : hand[j].id = id

removeAt(s, i) == [j \in 1..(Len(s) - 1) |-> IF j < i THEN s[j] ELSE s[j + 1]]

(***************************************************************************)
(* deck.ts: the deck is 2 Jesters (rank 0) and, for each rank r of         *)
(* 1..MaxRank, r cards of rank r; the id of a card is its sequence number. *)
(***************************************************************************)
RECURSIVE rankCards(_, _, _)
rankCards(rank, copy, seq) ==
    IF copy >= rank THEN <<>>
    ELSE <<[rank |-> rank, id |-> seq]>> \o rankCards(rank, copy + 1, seq + 1)

RECURSIVE ranksFrom(_, _, _)
ranksFrom(rank, maxRank, seq) ==
    IF rank > maxRank THEN <<>>
    ELSE rankCards(rank, 0, seq) \o ranksFrom(rank + 1, maxRank, seq + rank)

\* a variant with one Jester
deckOf_OneJester(maxRank) ==
    <<[rank |-> 0, id |-> 0]>> \o ranksFrom(1, maxRank, 1)

\* the deck of the ranks 1..maxRank
deckOf(maxRank) ==
    <<[rank |-> 0, id |-> 0], [rank |-> 0, id |-> 1]>>
        \o ranksFrom(1, maxRank, 2)

\* the highest rank of the game's deck: `rank <= 12`
DeckRanks == 12

\* the deck the model plays with
buildDeck == deckOf(MaxRank)

(***************************************************************************)
(* random.Shuffle returns a permutation of its argument that the seed of   *)
(* the random source and the number of the call determine.  The model has  *)
(* the seeds 0..MaxSeed; bit i of the seed tells what call i returns: the  *)
(* list itself, or its riffle (odd positions, then even ones) reversed.    *)
(* Calls are numbered from the last one of a move (the deck) backwards.    *)
(***************************************************************************)
riffle(s) ==
    LET n == Len(s)
        h == (n + 1) \div 2
    IN  [i \in 1..n |-> IF i <= h THEN s[2 * i - 1] ELSE s[2 * (i - h)]]

RECURSIVE bit(_, _)
bit(seed, i) == IF i = 0 THEN seed % 2 ELSE bit(seed \div 2, i - 1)

Shuffle(s, seed, call) ==
    IF bit(seed, call) = 0 THEN s ELSE reverse(riffle(s))

Seeds == 0..MaxSeed

(***************************************************************************)
(* Dealing: deck.forEach((card, i) => players[i % n].hand.push(card)).     *)
(***************************************************************************)
RECURSIVE dealTo(_, _, _, _)
dealTo(deck, i, id, n) ==
    IF i > Len(deck) THEN <<>>
    ELSE IF (i - 1) % n = id THEN <<deck[i]>> \o dealTo(deck, i + 1, id, n)
    ELSE dealTo(deck, i + 1, id, n)

\* G with every hand emptied and the deck dealt round-robin
dealHands(g, deck, n) ==
    [g EXCEPT !.players =
        [id \in DOMAIN g.players |->
            [g.players[id] EXCEPT !.hand = dealTo(deck, 1, id, n)]]]

(***************************************************************************)
(* Tax debts of a finish order, and their auto-staging (in startGame and   *)
(* in advanceRound): the payer's hand sorted ascending by rank, a Jester   *)
(* counted as 13, and its first `count` cards staged as offeredCards.      *)
(***************************************************************************)
\* a variant that sorts a Jester by its own rank number
taxRank_OwnRank(c) == c.rank

taxRank(c) == IF c.rank = 0 THEN 13 ELSE c.rank

\* Array.sort with the comparator ra - rb (a stable sort)
RECURSIVE sortedHand(_)
sortedHand(h) ==
    IF Len(h) = 0 THEN <<>>
    ELSE LET i == CHOOSE i \in 1..Len(h) :
                    \A j \in 1..Len(h) :
                        \/ taxRank(h[i]) < taxRank(h[j])
                        \/ taxRank(h[i]) = taxRank(h[j]) /\ i <= j
         IN  <<h[i]>> \o sortedHand(removeAt(h, i))

\* a variant that takes one element fewer
slice_OneFewer(s, n) == SubSeq(s, 1, IF n - 1 < Len(s) THEN n - 1 ELSE Len(s))

\* a variant that takes the last n elements
slice_FromEnd(s, n) == SubSeq(s, IF n < Len(s) THEN Len(s) - n + 1 ELSE 1, Len(s))

slice(s, n) == SubSeq(s, 1, IF n < Len(s) THEN n ELSE Len(s))

\* a variant without the debt of the second-to-last player
newDebts_OnlyFirst(order, n) ==
    IF Len(order) >= 2
       THEN <<[fromPlayerID |-> order[n], toPlayerID |-> order[1],
               count |-> 2, offeredCards |-> <<>>]>>
       ELSE <<>>

newDebts(order, n) ==
    (IF Len(order) >= 2
        THEN <<[fromPlayerID |-> order[n], toPlayerID |-> order[1],
                count |-> 2, offeredCards |-> <<>>]>>
        ELSE <<>>)
    \o
    (IF Len(order) >= 4
        THEN <<[fromPlayerID |-> order[n - 1], toPlayerID |-> order[2],
                count |-> 1, offeredCards |-> <<>>]>>
        ELSE <<>>)

\* the loop `for (const debt of G.taxDebts)`, from debt i on
RECURSIVE stageDebts(_, _)
stageDebts(g, i) ==
    IF i > Len(g.taxDebts) THEN g
    ELSE LET debt == g.taxDebts[i]
             payer == g.players[debt.fromPlayerID]
             bestCards == slice(sortedHand(payer.hand), debt.count)
             bestIds == {bestCards[k].id : k \in 1..Len(bestCards)}
             g1 == [g EXCEPT
                      !.players[debt.fromPlayerID].hand =
                          withoutIds(payer.hand, bestIds),
                      !.taxDebts[i].offeredCards = bestCards]
         IN  stageDebts(g1, i + 1)

(***************************************************************************)
(* DalmutiGame.setup: the state of a new match.  The hands it deals are    *)
(* replaced by startGame before any card is used.                          *)
(***************************************************************************)
PlayerIDs(n) == 0..(n - 1)

\* Object.keys(G.players): the ids in ascending order
playerKeys(n) == [i \in 1..n |-> i - 1]

NoTrick == [cards |-> <<>>, rank |-> null, count |-> 0, playedBy |-> null]

setup(n, seed) ==
    dealHands(
        [players |-> [id \in PlayerIDs(n) |->
                        [hand |-> <<>>, socialRank |-> null,
                         finished |-> FALSE, finishPosition |-> null]],
         currentTrick |-> NoTrick,
         lastPlayerToPlay |-> null,
         finishOrder |-> <<>>,
         taxDebts |-> <<>>,
         passedPlayers |-> <<>>,
         roundNumber |-> 1,
         revolutionDeclaredBy |-> null,
         isGreaterRevolution |-> FALSE,
         seatOrder |-> <<>>,
         pendingNewTrick |-> FALSE,
         readyPlayers |-> <<>>,
         roundOverDone |-> FALSE],
        Shuffle(buildDeck, seed, 0), n)

(***************************************************************************)
(* moves.ts.  A move maps G to [ok, G]: ok is FALSE when the move returns  *)
(* INVALID_MOVE, and G is the state as the move left it when it returned.  *)
(***************************************************************************)
Invalid(g) == [ok |-> FALSE, G |-> g]

Valid(g) == [ok |-> TRUE, G |-> g]

unfinishedIDs(g) == {id \in DOMAIN g.players : ~g.players[id].finished}

\* a variant that also waits for the last player to play
stillNeedToRespond_CountsLastPlayer(g) ==
    {id \in unfinishedIDs(g) : ~includes(g.passedPlayers, id)}

stillNeedToRespond(g) ==
    {id \in unfinishedIDs(g) :
        id # g.lastPlayerToPlay /\ ~includes(g.passedPlayers, id)}

\* a variant that never detects a won trick
markTrickWonIfComplete_Never(g) == g

markTrickWonIfComplete(g) ==
    IF g.currentTrick = NoTrick \/ g.lastPlayerToPlay = null THEN g
    ELSE IF stillNeedToRespond(g) = {} THEN [g EXCEPT !.pendingNewTrick = TRUE]
    ELSE g

\* a variant that lets a play of the trick's own rank through
failsToBeat_EqualAllowed(playedRank, trickRank) == playedRank > trickRank

\* a variant with the comparison turned round: the higher number wins
failsToBeat_HigherWins(playedRank, trickRank) == playedRank <= trickRank

\* `playedRank >= G.currentTrick.rank`: the play does not beat the trick
failsToBeat(playedRank, trickRank) == playedRank >= trickRank

\* a variant that numbers the finish positions from 0
markFinished_PositionFromZero(g, playerID) ==
    IF Len(g.players[playerID].hand) = 0
       THEN [g EXCEPT
               !.players[playerID].finished = TRUE,
               !.players[playerID].finishPosition = Len(g.finishOrder),
               !.finishOrder = Append(g.finishOrder, playerID)]
       ELSE g

\* `if (player.hand.length === 0)`: the player has finished
markFinished(g, playerID) ==
    IF Len(g.players[playerID].hand) = 0
       THEN [g EXCEPT
               !.players[playerID].finished = TRUE,
               !.players[playerID].finishPosition = Len(g.finishOrder) + 1,
               !.finishOrder = Append(g.finishOrder, playerID)]
       ELSE g

\* a variant in which wild cards played alone keep their rank 0
playedRankOf_WildKeepsZero(nonJesters) ==
    IF Len(nonJesters) > 0 THEN nonJesters[1].rank ELSE 0

\* `nonJesters.length > 0 ? nonJesters[0].rank : 13`
playedRankOf(nonJesters) ==
    IF Len(nonJesters) > 0 THEN nonJesters[1].rank ELSE 13

playCards(g, c, cardIds) ==
    LET playerID == c.currentPlayer
        player == g.players[playerID]
        playedCards == [i \in 1..Len(cardIds) |-> findCard(player.hand, cardIds[i])]
        nonJesters == SelectSeq(playedCards, LAMBDA cd : cd.rank # 0)
        uniqueRanks == {nonJesters[i].rank : i \in 1..Len(nonJesters)}
        playedRank == playedRankOf(nonJesters)
        playedIdSet == Range(cardIds)
        hand1 == withoutIds(player.hand, playedIdSet)
        g1 == [g EXCEPT
                 !.players[playerID].hand = hand1,
                 !.currentTrick = [cards |-> playedCards, rank |-> playedRank,
                                   count |-> Len(playedCards),
                                   playedBy |-> playerID],
                 !.lastPlayerToPlay = playerID,
                 !.passedPlayers = <<>>]
        g2 == markFinished(g1, playerID)
    IN  IF Len(cardIds) = 0 THEN Invalid(g)
        ELSE IF \E i \in 1..Len(cardIds) : ~hasCard(player.hand, cardIds[i])
            THEN Invalid(g)
        ELSE IF Cardinality(uniqueRanks) > 1 THEN Invalid(g)
        ELSE IF g.currentTrick # NoTrick /\ Len(playedCards) # g.currentTrick.count
            THEN Invalid(g)
        ELSE IF g.currentTrick # NoTrick
                /\ failsToBeat(playedRank, g.currentTrick.rank)
            THEN Invalid(g)
        ELSE Valid(markTrickWonIfComplete(g2))

\* a variant that records the pass before it looks at the trick
pass_PushBeforeCheck(g, c) ==
    LET g1 == [g EXCEPT !.passedPlayers = Append(g.passedPlayers, c.currentPlayer)]
    IN  IF g.currentTrick = NoTrick THEN Invalid(g1)
        ELSE Valid(markTrickWonIfComplete(g1))

\* a variant that lets the leader of a fresh trick pass
pass_WithoutTrick(g, c) ==
    Valid(markTrickWonIfComplete(
        [g EXCEPT !.passedPlayers = Append(g.passedPlayers, c.currentPlayer)]))

pass(g, c) ==
    IF g.currentTrick = NoTrick THEN Invalid(g)
    ELSE Valid(markTrickWonIfComplete(
            [g EXCEPT !.passedPlayers = Append(g.passedPlayers, c.currentPlayer)]))

\* a variant whose second debt needs 5 players
startDebts_SecondFromFive(initialOrder, n) ==
    (IF n >= 2
        THEN <<[fromPlayerID |-> initialOrder[n], toPlayerID |-> initialOrder[1],
                count |-> 2, offeredCards |-> <<>>]>>
        ELSE <<>>)
    \o
    (IF n >= 5
        THEN <<[fromPlayerID |-> initialOrder[n - 1], toPlayerID |-> initialOrder[2],
                count |-> 1, offeredCards |-> <<>>]>>
        ELSE <<>>)

\* the round-1 tax debts of startGame, from the drawn initial order
startDebts(initialOrder, n) ==
    (IF n >= 2
        THEN <<[fromPlayerID |-> initialOrder[n], toPlayerID |-> initialOrder[1],
                count |-> 2, offeredCards |-> <<>>]>>
        ELSE <<>>)
    \o
    (IF n >= 4
        THEN <<[fromPlayerID |-> initialOrder[n - 1], toPlayerID |-> initialOrder[2],
                count |-> 1, offeredCards |-> <<>>]>>
        ELSE <<>>)

startGame(g, c, seed) ==
    LET n == c.numPlayers
        playerIDs == playerKeys(n)
        initialOrder == Shuffle(playerIDs, seed, 1)
        g1 == [g EXCEPT
                 !.seatOrder = Shuffle(playerIDs, seed, 2),
                 !.finishOrder = initialOrder,
                 !.players = [id \in DOMAIN g.players |->
                     [g.players[id] EXCEPT !.socialRank =
                         CHOOSE i \in 1..n : initialOrder[i] = id]]]
        g2 == dealHands(g1, Shuffle(buildDeck, seed, 0), n)
        debts == startDebts(initialOrder, n)
    IN  IF c.currentPlayer # 0 THEN Invalid(g)
        ELSE Valid(stageDebts([g2 EXCEPT !.taxDebts = debts], 1))

advanceRound(g, c, seed) ==
    LET n == c.numPlayers
        g1 == [g EXCEPT
                 !.currentTrick = NoTrick,
                 !.lastPlayerToPlay = null,
                 !.passedPlayers = <<>>,
                 !.pendingNewTrick = FALSE,
                 !.revolutionDeclaredBy = null,
                 !.isGreaterRevolution = FALSE,
                 !.readyPlayers = <<>>]
        g2 == dealHands(g1, Shuffle(buildDeck, seed, 0), n)
        g3 == stageDebts([g2 EXCEPT !.taxDebts = newDebts(g.finishOrder, n)], 1)
    IN  Valid([g3 EXCEPT
                 !.players = [id \in DOMAIN g3.players |->
                     [g3.players[id] EXCEPT !.finished = FALSE,
                                            !.finishPosition = null]],
                 !.roundOverDone = TRUE])

\* a variant that appends the caller whether or not it is in the list
markReady_AlwaysPush(g, callerID) ==
    IF callerID \notin DOMAIN g.players THEN Invalid(g)
    ELSE Valid([g EXCEPT !.readyPlayers = Append(g.readyPlayers, callerID)])

markReady(g, callerID) ==
    IF callerID \notin DOMAIN g.players THEN Invalid(g)
    ELSE IF ~includes(g.readyPlayers, callerID)
        THEN Valid([g EXCEPT !.readyPlayers = Append(g.readyPlayers, callerID)])
    ELSE Valid(g)

\* a variant that counts every card
jokers_AnyCard(cards) == Len(cards)

jokers(cards) == Len(SelectSeq(cards, LAMBDA cd : cd.rank = 0))

\* the loop that returns every debt's staged cards to its payer, from debt i on
\* a variant that clears the staged cards without returning them
returnStaged_CardsDropped(g, i) ==
    [g EXCEPT !.taxDebts = [j \in 1..Len(g.taxDebts) |->
                               [g.taxDebts[j] EXCEPT !.offeredCards = <<>>]]]

RECURSIVE returnStaged(_, _)
returnStaged(g, i) ==
    IF i > Len(g.taxDebts) THEN g
    ELSE LET debt == g.taxDebts[i]
         IN  IF Len(debt.offeredCards) > 0
                THEN returnStaged(
                        [g EXCEPT
                           !.players[debt.fromPlayerID].hand = @ \o debt.offeredCards,
                           !.taxDebts[i].offeredCards = <<>>],
                        i + 1)
                ELSE returnStaged(g, i + 1)

\* a variant in which the player at either end of the finish order is the one
isGreaterPeon_EitherEnd(g, playerID, n) ==
    Len(g.finishOrder) >= n /\ (g.finishOrder[n] = playerID \/ g.finishOrder[1] = playerID)

\* a variant in which every declarer counts as the Greater Peon
isGreaterPeon_AnyDeclarer(g, playerID, n) == Len(g.finishOrder) >= n

\* a variant in which the first player of the finish order is the one
isGreaterPeon_FirstPlayer(g, playerID, n) ==
    Len(g.finishOrder) >= n /\ g.finishOrder[1] = playerID

\* `G.finishOrder.length >= n && G.finishOrder[n - 1] === playerID`
isGreaterPeon(g, playerID, n) ==
    Len(g.finishOrder) >= n /\ g.finishOrder[n] = playerID

declareRevolution(g, callerID) ==
    LET playerID == callerID
        n == Cardinality(DOMAIN g.players)
        owed == {i \in 1..Len(g.taxDebts) : g.taxDebts[i].fromPlayerID = playerID}
        handJokers == jokers(g.players[playerID].hand)
        stagedJokers == IF owed # {}
                           THEN jokers(g.taxDebts[CHOOSE i \in owed :
                                          \A j \in owed : i <= j].offeredCards)
                           ELSE 0
        g1 == returnStaged(g, 1)
        isGreater == isGreaterPeon(g1, playerID, n)
        reversed == reverse(g1.finishOrder)
        g2 == IF isGreater
                 THEN [g1 EXCEPT
                         !.finishOrder = reversed,
                         !.players = [id \in DOMAIN g1.players |->
                             IF includes(reversed, id)
                                THEN [g1.players[id] EXCEPT !.socialRank =
                                        CHOOSE i \in 1..Len(reversed) :
                                            /\ reversed[i] = id
                                            /\ \A j \in (i + 1)..Len(reversed) :
                                                   reversed[j] # id]
                                ELSE g1.players[id]],
                         !.isGreaterRevolution = TRUE]
                 ELSE g1
    IN  IF playerID \notin DOMAIN g.players THEN Invalid(g)
        ELSE IF handJokers + stagedJokers < 2 THEN Invalid(g)
        ELSE Valid([g2 EXCEPT !.taxDebts = <<>>,
                              !.revolutionDeclaredBy = playerID])

\* a variant that finds for a player the staged debts of every receiver
outstandingTo_AnyReceiver(g, playerID) ==
    {i \in 1..Len(g.taxDebts) :
        /\ playerID \in DOMAIN g.players
        /\ Len(g.taxDebts[i].offeredCards) > 0}

\* a variant that also finds the debts whose offered cards are gone
outstandingTo_ResolvedToo(g, playerID) ==
    {i \in 1..Len(g.taxDebts) : g.taxDebts[i].toPlayerID = playerID}

\* the debts `d.toPlayerID === playerID && d.offeredCards.length > 0`
outstandingTo(g, playerID) ==
    {i \in 1..Len(g.taxDebts) :
        /\ g.taxDebts[i].toPlayerID = playerID
        /\ Len(g.taxDebts[i].offeredCards) > 0}

giveBackCards(g, callerID, cardIds) ==
    LET playerID == callerID
        open == outstandingTo(g, playerID)
        d == CHOOSE i \in open : \A j \in open : i <= j
        debt == g.taxDebts[d]
        receiver == g.players[playerID]
        given == [i \in 1..Len(cardIds) |-> findCard(receiver.hand, cardIds[i])]
        giveBackIdSet == Range(cardIds)
        g1 == [g EXCEPT
                 !.players[playerID].hand =
                     withoutIds(receiver.hand, giveBackIdSet) \o debt.offeredCards]
        g2 == [g1 EXCEPT
                 !.players[debt.fromPlayerID].hand = @ \o given,
                 !.taxDebts[d].offeredCards = <<>>,
                 !.taxDebts[d].count = 0]
    IN  IF open = {} THEN Invalid(g)
        ELSE IF Len(cardIds) # debt.count THEN Invalid(g)
        ELSE IF \E i \in 1..Len(cardIds) : ~hasCard(receiver.hand, cardIds[i])
            THEN Invalid(g)
        ELSE Valid(g2)

(***************************************************************************)
(* phases.ts: the hooks of the four phases.                                *)
(***************************************************************************)
\* a variant whose tax phase ends when one player is still not ready
phaseEndIf_OneShortOfReady(phase, g, c) ==
    CASE phase = "lobby" -> Len(g.seatOrder) > 0
      [] phase = "tax" ->
            LET allResolved == \A i \in 1..Len(g.taxDebts) : g.taxDebts[i].count = 0
                allReady == Len(g.readyPlayers) >= c.numPlayers - 1
            IN  allResolved /\ allReady
      [] phase = "play" -> Cardinality(unfinishedIDs(g)) <= 1
      [] phase = "roundOver" -> g.roundOverDone
      [] OTHER -> FALSE

phaseEndIf(phase, g, c) ==
    CASE phase = "lobby" -> Len(g.seatOrder) > 0
      [] phase = "tax" ->
            LET allResolved == \A i \in 1..Len(g.taxDebts) : g.taxDebts[i].count = 0
                allReady == Len(g.readyPlayers) >= c.numPlayers
            IN  allResolved /\ allReady
      [] phase = "play" -> Cardinality(unfinishedIDs(g)) <= 1
      [] phase = "roundOver" -> g.roundOverDone
      [] OTHER -> FALSE

\* a variant in which play leads directly back to tax
phaseNext_PlayToTax(phase) ==
    CASE phase = "lobby" -> "tax"
      [] phase = "tax" -> "play"
      [] phase = "play" -> "tax"
      [] phase = "roundOver" -> "tax"
      [] OTHER -> "none"

phaseNext(phase) ==
    CASE phase = "lobby" -> "tax"
      [] phase = "tax" -> "play"
      [] phase = "play" -> "roundOver"
      [] phase = "roundOver" -> "tax"
      [] OTHER -> "none"

\* a variant whose tax phase begins without debts
taxOnBegin_DebtsCleared(g) ==
    [g EXCEPT !.roundOverDone = FALSE,
              !.readyPlayers = <<>>,
              !.revolutionDeclaredBy = null,
              !.isGreaterRevolution = FALSE,
              !.taxDebts = <<>>]

taxOnBegin(g) ==
    [g EXCEPT !.roundOverDone = FALSE,
              !.readyPlayers = <<>>,
              !.revolutionDeclaredBy = null,
              !.isGreaterRevolution = FALSE]

taxOnEnd(g) == [g EXCEPT !.taxDebts = <<>>]

playOnBegin(g) ==
    [g EXCEPT !.currentTrick = NoTrick,
              !.lastPlayerToPlay = null,
              !.passedPlayers = <<>>,
              !.pendingNewTrick = FALSE,
              !.players = [id \in DOMAIN g.players |->
                  [g.players[id] EXCEPT !.finished = FALSE,
                                         !.finishPosition = null]],
              !.finishOrder = <<>>]

\* a variant that numbers the ranks from the index itself
snapshotRanks_FromIndex(g) ==
    [g EXCEPT !.players = [id \in DOMAIN g.players |->
        IF includes(g.finishOrder, id)
           THEN [g.players[id] EXCEPT !.socialRank =
                    (CHOOSE i \in 1..Len(g.finishOrder) : g.finishOrder[i] = id) - 1]
           ELSE g.players[id]]]

\* finishOrder.forEach((playerID, index) => socialRank = index + 1)
snapshotRanks(g) ==
    [g EXCEPT !.players = [id \in DOMAIN g.players |->
        IF includes(g.finishOrder, id)
           THEN [g.players[id] EXCEPT !.socialRank =
                    CHOOSE i \in 1..Len(g.finishOrder) :
                        /\ g.finishOrder[i] = id
                        /\ \A j \in (i + 1)..Len(g.finishOrder) :
                               g.finishOrder[j] # id]
           ELSE g.players[id]]]

\* a variant that does not give the last player its finish position
playOnEnd_LastPlayerForgotten(g) ==
    [snapshotRanks(g) EXCEPT !.roundNumber = g.roundNumber + 1]

playOnEnd(g) ==
    LET unfinished == unfinishedIDs(g)
        id == CHOOSE i \in unfinished : \A j \in unfinished : i <= j
        g1 == IF unfinished # {}
                 THEN [g EXCEPT
                         !.players[id].finished = TRUE,
                         !.players[id].finishPosition = Len(g.finishOrder) + 1,
                         !.finishOrder = Append(g.finishOrder, id)]
                 ELSE g
    IN  [snapshotRanks(g1) EXCEPT !.roundNumber = g.roundNumber + 1]

phaseOnBegin(phase, g) ==
    CASE phase = "tax" -> taxOnBegin(g)
      [] phase = "play" -> playOnBegin(g)
      [] OTHER -> g

phaseOnEnd(phase, g) ==
    CASE phase = "tax" -> taxOnEnd(g)
      [] phase = "play" -> playOnEnd(g)
      [] OTHER -> g

\* a variant that clears the trick at every turn of the play phase
turnOnBegin_AlwaysClears(phase, g) ==
    IF phase = "play"
       THEN [g EXCEPT !.currentTrick = NoTrick,
                      !.passedPlayers = <<>>,
                      !.pendingNewTrick = FALSE]
       ELSE g

\* playPhase.turn.onBegin
turnOnBegin(phase, g) ==
    IF phase = "play" /\ g.pendingNewTrick
       THEN [g EXCEPT !.currentTrick = NoTrick,
                      !.passedPlayers = <<>>,
                      !.pendingNewTrick = FALSE]
       ELSE g

(***************************************************************************)
(* Turn order.  Positions in playOrder count from 0, as in the code.       *)
(***************************************************************************)
at(order, pos) == order[pos + 1]

\* playPhase.turn.order.playOrder: the ids sorted ascending by social rank
RECURSIVE byRank(_, _)
byRank(g, ids) ==
    IF ids = {} THEN <<>>
    ELSE LET id == CHOOSE i \in ids : \A j \in ids :
                      \/ g.players[i].socialRank < g.players[j].socialRank
                      \/ g.players[i].socialRank = g.players[j].socialRank /\ i <= j
         IN  <<id>> \o byRank(g, ids \ {id})

\* a variant whose play phase keeps the order of the player ids
playOrderOf_ByID(phase, g, c) == playerKeys(c.numPlayers)

\* a variant in which roundOver keeps the rank order of the play phase
playOrderOf_RankOrderKept(phase, g, c) ==
    IF phase \in {"play", "roundOver"} THEN byRank(g, DOMAIN g.players)
    ELSE playerKeys(c.numPlayers)

playOrderOf(phase, g, c) ==
    IF phase = "play" THEN byRank(g, DOMAIN g.players)
    ELSE playerKeys(c.numPlayers)

\* a variant in which every phase begins with the engine's default player
orderFirst_EngineDefault(phase, c) == (c.playOrderPos + 1) % c.numPlayers

\* order.first: 0 in lobby, roundOver and play; the engine's default in tax
orderFirst(phase, c) ==
    IF phase = "tax" THEN (c.playOrderPos + 1) % c.numPlayers ELSE 0

\* the while loop of playPhase.turn.order.next
\* a variant that does not skip finished players
skipFinished_NoSkip(g, c, next, attempts) == next

\* a variant that steps over one finished player only
skipFinished_OneStep(g, c, next, attempts) ==
    IF g.players[at(c.playOrder, next)].finished /\ attempts < Len(c.playOrder)
       THEN (next + 1) % Len(c.playOrder)
       ELSE next

RECURSIVE skipFinished(_, _, _, _)
skipFinished(g, c, next, attempts) ==
    IF g.players[at(c.playOrder, next)].finished /\ attempts < Len(c.playOrder)
       THEN skipFinished(g, c, (next + 1) % Len(c.playOrder), attempts + 1)
       ELSE next

\* the value of `attempts` when the loop of order.next ends
RECURSIVE skipSteps(_, _, _, _)
skipSteps(g, c, next, attempts) ==
    IF g.players[at(c.playOrder, next)].finished /\ attempts < Len(c.playOrder)
       THEN skipSteps(g, c, (next + 1) % Len(c.playOrder), attempts + 1)
       ELSE attempts

\* a variant that keeps the turn position when every player is finished
orderNext_StayWhenAllFinished(phase, g, c) ==
    IF phase = "play"
       THEN IF unfinishedIDs(g) = {} THEN c.playOrderPos
            ELSE skipFinished(g, c, (c.playOrderPos + 1) % Len(c.playOrder), 0)
       ELSE 0

orderNext(phase, g, c) ==
    IF phase = "play"
       THEN skipFinished(g, c, (c.playOrderPos + 1) % Len(c.playOrder), 0)
       ELSE 0

\* playPhase.turn.endIf: null (no result) or the id of the next leader
turnEndIf(g, c) ==
    IF g.currentTrick = NoTrick THEN null
    ELSE IF stillNeedToRespond(g) = {} /\ g.lastPlayerToPlay # null
       THEN LET winner == g.lastPlayerToPlay
                winnerRank == g.players[winner].socialRank
                unfinished == byRank(g, unfinishedIDs(g))
                higher == {i \in 1..Len(unfinished) :
                              g.players[unfinished[i]].socialRank > winnerRank}
            IN  IF g.players[winner].finished
                   THEN IF Len(unfinished) > 0
                           THEN IF higher # {}
                                   THEN unfinished[CHOOSE i \in higher :
                                                      \A j \in higher : i <= j]
                                   ELSE unfinished[1]
                           ELSE winner
                   ELSE winner
       ELSE null

\* playPhase.turn.moveLimit
moveLimit(phase) == IF phase = "play" THEN 1 ELSE 0

(***************************************************************************)
(* The engine's processing after an accepted move: the phase's endIf, and  *)
(* if it holds the phase's onEnd and the next phase's begin; otherwise the *)
(* end of the turn (the move limit is reached, or turn.endIf names the     *)
(* next player) and the begin of the next turn.                            *)
(***************************************************************************)
\* the first turn of a phase: play order, first player, turn.onBegin
startTurn(phase, g, c) ==
    LET order == playOrderOf(phase, g, c)
        pos == orderFirst(phase, c)
    IN  [G |-> turnOnBegin(phase, g),
         ctx |-> [c EXCEPT !.phase = phase, !.playOrder = order,
                           !.playOrderPos = pos,
                           !.currentPlayer = at(order, pos)]]

\* the phase c.phase ends; ended holds the phases this processing has ended.
\* The next phase's endIf is evaluated before its onBegin, and again after it.
RECURSIVE endPhase(_, _, _)
endPhase(g, c, ended) ==
    LET g1 == phaseOnEnd(c.phase, g)
        phase == phaseNext(c.phase)
        c1 == [c EXCEPT !.phase = phase]
        g2 == phaseOnBegin(phase, g1)
    IN  IF phaseEndIf(phase, g1, c1)
           THEN IF phase \in ended THEN [G |-> g1, ctx |-> [c EXCEPT !.phase = "none"]]
                ELSE endPhase(g1, c1, ended \cup {phase})
        ELSE IF phaseEndIf(phase, g2, c1)
           THEN IF phase \in ended THEN [G |-> g2, ctx |-> [c EXCEPT !.phase = "none"]]
                ELSE endPhase(g2, c1, ended \cup {phase})
        ELSE startTurn(phase, g2, c)

endTurn(g, c) ==
    LET to == IF moveLimit(c.phase) > 0 THEN null ELSE turnEndIf(g, c)
        pos == IF to = null THEN orderNext(c.phase, g, c)
               ELSE CHOOSE i \in 0..(Len(c.playOrder) - 1) : at(c.playOrder, i) = to
        c1 == [c EXCEPT !.playOrderPos = pos,
                        !.currentPlayer = at(c.playOrder, pos)]
    IN  [G |-> turnOnBegin(c.phase, g), ctx |-> c1]

shouldEndTurn(g, c) ==
    \/ moveLimit(c.phase) > 0
    \/ c.phase = "play" /\ turnEndIf(g, c) # null

process(g, c) ==
    IF phaseEndIf(c.phase, g, c) THEN endPhase(g, c, {c.phase})
    ELSE IF shouldEndTurn(g, c) THEN endTurn(g, c)
    ELSE [G |-> g, ctx |-> c]

(***************************************************************************)
(* Who may make which move: a phase's moves are open to the current        *)
(* player, the moves of the stage waitingForTax to every player.           *)
(***************************************************************************)
movesOf(phase) ==
    CASE phase = "lobby" -> {"startGame"}
      [] phase = "tax" -> {"giveBackCards", "declareRevolution", "markReady"}
      [] phase = "play" -> {"playCards", "pass"}
      [] phase = "roundOver" -> {"advanceRound"}
      [] OTHER -> {}

canMove(c, playerID, move) ==
    /\ move \in movesOf(c.phase)
    /\ playerID \in PlayerIDs(c.numPlayers)
    /\ c.phase = "tax" \/ playerID = c.currentPlayer

(***************************************************************************)
(* The state machine.  last records the latest move: its name, whether it  *)
(* was accepted and, for an accepted move, its sender and arguments.       *)
(***************************************************************************)
CardIDs == {buildDeck[i].id : i \in 1..Len(buildDeck)}

handIDs(hand) == {hand[i].id : i \in 1..Len(hand)}

\* the lists of card ids a caller submits: up to MaxIds ids, each an id of a
\* card of the hand or the least id of the deck that is not in the hand
CardIdLists(hand) ==
    LET foreign == CardIDs \ handIDs(hand)
        ids == handIDs(hand) \cup
               {i \in foreign : \A j \in foreign : i <= j}
    IN  UNION {[1..k -> ids] : k \in 0..MaxIds}

\* the caller ids a client may pass: the players and one id that is no player
CallerIDs(n) == 0..n

handOf(g, id) == IF id \in DOMAIN g.players THEN g.players[id].hand ELSE <<>>

Accepted(move, playerID, callerID, cardIds) ==
    [move |-> move, ok |-> TRUE, playerID |-> playerID,
     callerID |-> callerID, cardIds |-> cardIds]

Rejected(move) ==
    [move |-> move, ok |-> FALSE, playerID |-> null,
     callerID |-> null, cardIds |-> <<>>]

Init ==
    \E n \in minPlayers..(minPlayers + ExtraPlayers), seed \in Seeds :
        /\ G = setup(n, seed)
        /\ ctx = [phase |-> "lobby", currentPlayer |-> 0,
                  playOrder |-> playerKeys(n), playOrderPos |-> 0,
                  numPlayers |-> n]
        /\ pc = "idle"
        /\ last = Accepted("none", null, null, <<>>)

\* an accepted or rejected move: r is the result of the move's function, and
\* playerID the player the move acts for when it reads ctx.currentPlayer
Apply(move, playerID, callerID, cardIds, r) ==
    /\ G' = r.G
    /\ pc' = IF r.ok THEN "moved" ELSE "idle"
    /\ last' = IF r.ok THEN Accepted(move, playerID, callerID, cardIds)
               ELSE Rejected(move)
    /\ UNCHANGED ctx

\* the engine refuses a move that the sender may not make in this phase
Disallowed(move) ==
    /\ last' = Rejected(move)
    /\ UNCHANGED <<G, ctx, pc>>

\* a stage move does not read its sender: the caller sends it, or the owner
\* when the caller id is no player
senderOf(callerID) ==
    IF callerID \in PlayerIDs(ctx.numPlayers) THEN callerID ELSE 0

StartGame ==
    /\ pc = "idle"
    /\ \E playerID \in PlayerIDs(ctx.numPlayers) :
        IF canMove(ctx, playerID, "startGame")
           THEN \E seed \in Seeds :
                    Apply("startGame", playerID, null, <<>>,
                          startGame(G, ctx, seed))
           ELSE Disallowed("startGame")

PlayCards ==
    /\ pc = "idle"
    /\ G.roundNumber <= MaxRounds
    /\ \E playerID \in PlayerIDs(ctx.numPlayers) :
        IF canMove(ctx, playerID, "playCards")
           THEN \E cardIds \in CardIdLists(handOf(G, ctx.currentPlayer)) :
                    Apply("playCards", playerID, null, cardIds,
                          playCards(G, ctx, cardIds))
           ELSE Disallowed("playCards")

Pass ==
    /\ pc = "idle"
    /\ G.roundNumber <= MaxRounds
    /\ \E playerID \in PlayerIDs(ctx.numPlayers) :
        IF canMove(ctx, playerID, "pass")
           THEN Apply("pass", playerID, null, <<>>, pass(G, ctx))
           ELSE Disallowed("pass")

\* the players that have not signalled readiness yet
notReady(g) == {id \in DOMAIN g.players : ~includes(g.readyPlayers, id)}

MarkReadyBy(callerID) ==
    /\ pc = "idle"
    /\ IF canMove(ctx, senderOf(callerID), "markReady")
          THEN Apply("markReady", null, callerID, <<>>, markReady(G, callerID))
          ELSE Disallowed("markReady")

\* any caller signals readiness
MarkReady == \E callerID \in CallerIDs(ctx.numPlayers) : MarkReadyBy(callerID)

\* the players signal readiness in the order of their ids (any caller may
\* repeat its signal, and a caller that is no player may signal)
MarkReadyInOrder ==
    \E callerID \in CallerIDs(ctx.numPlayers) :
        /\ callerID \in notReady(G) => \A id \in notReady(G) : callerID <= id
        /\ MarkReadyBy(callerID)

DeclareRevolution ==
    /\ pc = "idle"
    /\ \E callerID \in CallerIDs(ctx.numPlayers) :
        IF canMove(ctx, senderOf(callerID), "declareRevolution")
           THEN Apply("declareRevolution", null, callerID, <<>>,
                      declareRevolution(G, callerID))
           ELSE Disallowed("declareRevolution")

GiveBackCards ==
    /\ pc = "idle"
    /\ \E callerID \in CallerIDs(ctx.numPlayers) :
        IF canMove(ctx, senderOf(callerID), "giveBackCards")
           THEN \E cardIds \in CardIdLists(handOf(G, callerID)) :
                    Apply("giveBackCards", null, callerID, cardIds,
                          giveBackCards(G, callerID, cardIds))
           ELSE Disallowed("giveBackCards")

AdvanceRound ==
    /\ pc = "idle"
    /\ G.roundNumber <= MaxRounds + 1
    /\ \E playerID \in PlayerIDs(ctx.numPlayers) :
        IF canMove(ctx, playerID, "advanceRound")
           THEN \E seed \in Seeds :
                    Apply("advanceRound", playerID, null, <<>>,
                          advanceRound(G, ctx, seed))
           ELSE Disallowed("advanceRound")

\* the engine's processing of the hooks after an accepted move
Flow ==
    /\ pc = "moved"
    /\ LET r == process(G, ctx)
       IN  /\ G' = r.G
           /\ ctx' = r.ctx
    /\ pc' = "idle"
    /\ UNCHANGED last

(***************************************************************************)
(* Spec: a match, in which the players signal readiness in id order.       *)
(* SpecTax: the match up to its first play phase, with every interleaving  *)
(* of the tax moves.                                                       *)
(***************************************************************************)
Next ==
    \/ StartGame
    \/ PlayCards
    \/ Pass
    \/ MarkReadyInOrder
    \/ DeclareRevolution
    \/ GiveBackCards
    \/ AdvanceRound
    \/ Flow

Spec == Init /\ [][Next]_vars

NextTax ==
    \/ StartGame
    \/ MarkReady
    \/ DeclareRevolution
    \/ GiveBackCards
    \/ Flow

SpecTax == Init /\ [][NextTax]_vars

(***************************************************************************)
(* SpecStart: matches of minPlayers..MaxStartPlayers players up to their   *)
(* first play phase; startGame draws the initial order as well as the deck *)
(* (the seeds 0..2*MaxSeed+1 reach the second call of random.Shuffle).     *)
(***************************************************************************)
StartSeeds == 0..(2 * MaxSeed + 1)

InitStart ==
    \E n \in minPlayers..MaxStartPlayers, seed \in Seeds :
        /\ G = setup(n, seed)
        /\ ctx = [phase |-> "lobby", currentPlayer |-> 0,
                  playOrder |-> playerKeys(n), playOrderPos |-> 0,
                  numPlayers |-> n]
        /\ pc = "idle"
        /\ last = Accepted("none", null, null, <<>>)

StartGameDrawn ==
    /\ pc = "idle"
    /\ \E playerID \in PlayerIDs(ctx.numPlayers) :
        IF canMove(ctx, playerID, "startGame")
           THEN \E seed \in StartSeeds :
                    Apply("startGame", playerID, null, <<>>,
                          startGame(G, ctx, seed))
           ELSE Disallowed("startGame")

NextStart ==
    \/ StartGameDrawn
    \/ MarkReadyInOrder
    \/ DeclareRevolution
    \/ GiveBackCards
    \/ Flow

SpecStart == InitStart /\ [][NextStart]_vars

(***************************************************************************)
(* SpecScenario: the first round of a match played as the end-to-end       *)
(* scenario has it: startGame; every player signals readiness once and     *)
(* every receiver gives back as many cards of its hand as its debt counts; *)
(* in the play phase the player to act leads, the others pass until the    *)
(* first trick is won, and then the round is played freely to its end.     *)
(***************************************************************************)
\* the number of cards in the hands
cardsInHands(g) ==
    Cardinality(UNION {{<<id, i>> : i \in 1..Len(g.players[id].hand)} :
                           id \in DOMAIN g.players})

\* the first trick of the round is open: no card has left the table yet
firstTrickOpen(g) ==
    /\ g.currentTrick # NoTrick
    /\ cardsInHands(g) + Len(g.currentTrick.cards) = Len(buildDeck)

\* a player that is not ready signals readiness, in the order of the ids
ScenarioMarkReady ==
    \E callerID \in notReady(G) :
        /\ \A id \in notReady(G) : callerID <= id
        /\ MarkReadyBy(callerID)

\* a receiver gives back exactly the required number of cards of its hand
ScenarioGiveBack ==
    /\ pc = "idle"
    /\ \E callerID \in PlayerIDs(ctx.numPlayers) :
          /\ canMove(ctx, callerID, "giveBackCards")
          /\ outstandingTo(G, callerID) # {}
          /\ \E cardIds \in CardIdLists(handOf(G, callerID)) :
                /\ \A i, j \in 1..Len(cardIds) : cardIds[i] = cardIds[j] => i = j
                /\ \A i \in 1..Len(cardIds) : hasCard(handOf(G, callerID), cardIds[i])
                /\ \E d \in outstandingTo(G, callerID) :
                      Len(cardIds) = G.taxDebts[d].count
                /\ Apply("giveBackCards", null, callerID, cardIds,
                         giveBackCards(G, callerID, cardIds))

\* the player to act plays cards of its hand, unless the first trick is open
ScenarioPlayCards ==
    /\ pc = "idle"
    /\ G.roundNumber <= MaxRounds
    /\ canMove(ctx, ctx.currentPlayer, "playCards")
    /\ ~firstTrickOpen(G)
    /\ \E cardIds \in CardIdLists(handOf(G, ctx.currentPlayer)) :
          /\ \A i, j \in 1..Len(cardIds) : cardIds[i] = cardIds[j] => i = j
          /\ Apply("playCards", ctx.currentPlayer, null, cardIds,
                   playCards(G, ctx, cardIds))

\* the player to act passes
ScenarioPass ==
    /\ pc = "idle"
    /\ G.roundNumber <= MaxRounds
    /\ canMove(ctx, ctx.currentPlayer, "pass")
    /\ Apply("pass", ctx.currentPlayer, null, <<>>, pass(G, ctx))

NextScenario ==
    \/ StartGame
    \/ ScenarioMarkReady
    \/ ScenarioGiveBack
    \/ ScenarioPlayCards
    \/ ScenarioPass
    \/ Flow

SpecScenario == Init /\ [][NextScenario]_vars

(***************************************************************************)
(* SpecLive: the first round of a match whose tax phase is settled by      *)
(* regular give-backs and whose play phase takes every playCards and pass  *)
(* the players can send.  The engine processes an accepted move at once,   *)
(* and the player to act in a play phase eventually sends a move that is   *)
(* accepted.                                                               *)
(***************************************************************************)
PlayMove == (PlayCards \/ Pass) /\ pc' = "moved"

NextLive ==
    \/ StartGame
    \/ ScenarioMarkReady
    \/ ScenarioGiveBack
    \/ PlayCards
    \/ Pass
    \/ Flow

SpecLive == Init /\ [][NextLive]_vars /\ WF_vars(Flow) /\ WF_vars(PlayMove)

(***************************************************************************)
(* SpecStage: the staging of the tax debts (the loop at the end of         *)
(* startGame and advanceRound) applied to drawn hands.  The payer of the   *)
(* debt of 2 holds any StageHandLen different cards of the deck in any     *)
(* order, the payer of the debt of 1 the other cards: the shortest hands   *)
(* that hold `count` cards besides every Jester, as every dealt hand of    *)
(* the full deck does.                                                     *)
(***************************************************************************)
StageHandLen == jokers(buildDeck) + 2

\* the cards of the deck at the positions pos, in that order
cardsAtPositions(pos) == [i \in 1..Len(pos) |-> buildDeck[pos[i]]]

InitStage ==
    \E pos \in [1..StageHandLen -> 1..Len(buildDeck)] :
        /\ \A i, j \in 1..StageHandLen : pos[i] = pos[j] => i = j
        /\ LET n == minPlayers
               drawn == cardsAtPositions(pos)
               others == withoutIds(buildDeck, handIDs(drawn))
               g == setup(n, 0)
           IN  G = [g EXCEPT
                      !.players = [id \in PlayerIDs(n) |->
                          [g.players[id] EXCEPT
                              !.hand = IF id = n - 1 THEN drawn
                                       ELSE IF id = n - 2 THEN others
                                       ELSE <<>>,
                              !.socialRank = id + 1]],
                      !.finishOrder = playerKeys(n)]
        /\ ctx = [phase |-> "roundOver", currentPlayer |-> 0,
                  playOrder |-> playerKeys(minPlayers), playOrderPos |-> 0,
                  numPlayers |-> minPlayers]
        /\ pc = "idle"
        /\ last = Accepted("none", null, null, <<>>)

\* the debts of the finish order are created and staged
StageDebts ==
    /\ pc = "idle"
    /\ G.taxDebts = <<>>
    /\ G' = stageDebts([G EXCEPT !.taxDebts = newDebts(G.finishOrder, ctx.numPlayers)], 1)
    /\ last' = Accepted("advanceRound", 0, null, <<>>)
    /\ UNCHANGED <<ctx, pc>>

NextStage == StageDebts

SpecStage == InitStage /\ [][NextStage]_vars

(***************************************************************************)
(* SpecNext: order.next of the play phase applied to drawn inputs: any     *)
(* ranking of the players, any of them finished (all of them too), any     *)
(* turn position.                                                          *)
(***************************************************************************)
InitNext ==
    \E order \in [1..minPlayers -> PlayerIDs(minPlayers)],
       done \in [PlayerIDs(minPlayers) -> BOOLEAN],
       pos \in 0..(minPlayers - 1) :
        /\ \A i, j \in 1..minPlayers : order[i] = order[j] => i = j
        /\ LET g == setup(minPlayers, 0)
           IN  G = [g EXCEPT
                      !.players = [id \in PlayerIDs(minPlayers) |->
                          [g.players[id] EXCEPT
                              !.finished = done[id],
                              !.socialRank = CHOOSE i \in 1..minPlayers :
                                                 order[i] = id]]]
        /\ ctx = [phase |-> "play", currentPlayer |-> order[pos + 1],
                  playOrder |-> order, playOrderPos |-> pos,
                  numPlayers |-> minPlayers]
        /\ pc = "idle"
        /\ last = Accepted("none", null, null, <<>>)

\* the engine asks order.next for the position of the next turn
NextPlayer ==
    /\ pc = "idle"
    /\ LET pos == orderNext(ctx.phase, G, ctx)
       IN  ctx' = [ctx EXCEPT !.playOrderPos = pos,
                              !.currentPlayer = at(ctx.playOrder, pos)]
    /\ pc' = "moved"
    /\ UNCHANGED <<G, last>>

NextNext == NextPlayer

SpecNext == InitNext /\ [][NextNext]_vars

(***************************************************************************)
(* DalmutiGame.playerView: the state a client is sent.  playerID is null   *)
(* for a spectator.  The id `hidden-<id>-<i>` of a placeholder card is the *)
(* tuple <<"hidden", id, i>>.                                              *)
(***************************************************************************)
hiddenCard(id, i) == [rank |-> 1, id |-> <<"hidden", id, i>>]

\* a variant whose placeholder cards keep the rank of the card they hide
playerView_RankKept(g, playerID) ==
    IF playerID = null THEN g
    ELSE [g EXCEPT
            !.players = [id \in DOMAIN g.players |->
                IF id = playerID THEN g.players[id]
                ELSE [g.players[id] EXCEPT !.hand =
                        [i \in 1..Len(g.players[id].hand) |->
                            [hiddenCard(id, i - 1) EXCEPT
                                !.rank = g.players[id].hand[i].rank]]]],
            !.taxDebts = [i \in 1..Len(g.taxDebts) |->
                IF g.taxDebts[i].toPlayerID = playerID
                   THEN [g.taxDebts[i] EXCEPT !.offeredCards = <<>>]
                   ELSE g.taxDebts[i]]]

\* a variant that leaves the offered cards in the debts
playerView_OfferedKept(g, playerID) ==
    IF playerID = null THEN g
    ELSE [g EXCEPT
            !.players = [id \in DOMAIN g.players |->
                IF id = playerID THEN g.players[id]
                ELSE [g.players[id] EXCEPT !.hand =
                        [i \in 1..Len(g.players[id].hand) |->
                            hiddenCard(id, i - 1)]]]]

playerView(g, playerID) ==
    IF playerID = null THEN g
    ELSE [g EXCEPT
            !.players = [id \in DOMAIN g.players |->
                IF id = playerID THEN g.players[id]
                ELSE [g.players[id] EXCEPT !.hand =
                        [i \in 1..Len(g.players[id].hand) |->
                            hiddenCard(id, i - 1)]]],
            !.taxDebts = [i \in 1..Len(g.taxDebts) |->
                IF g.taxDebts[i].toPlayerID = playerID
                   THEN [g.taxDebts[i] EXCEPT !.offeredCards = <<>>]
                   ELSE g.taxDebts[i]]]

\* the viewers: the callers and the spectator
Viewers(n) == CallerIDs(n) \cup {null}

Viewed(viewerID, view) ==
    [move |-> "playerView", ok |-> TRUE, playerID |-> viewerID,
     callerID |-> null, cardIds |-> <<>>, view |-> view]

\* the state is projected for a viewer; last keeps the viewer and its view
ProjectView ==
    /\ pc = "idle"
    /\ \E viewerID \in Viewers(ctx.numPlayers) :
          last' = Viewed(viewerID, playerView(G, viewerID))
    /\ UNCHANGED <<G, ctx, pc>>

(***************************************************************************)
(* SpecView: the matches of SpecStart, with the projection of every idle   *)
(* state for every viewer.                                                 *)
(***************************************************************************)
NextView ==
    \/ StartGameDrawn
    \/ MarkReadyInOrder
    \/ DeclareRevolution
    \/ GiveBackCards
    \/ Flow
    \/ ProjectView

SpecView == InitStart /\ [][NextView]_vars

(***************************************************************************)
(* Notions the claims are stated in.                                       *)
(***************************************************************************)
Phases == {"lobby", "tax", "play", "roundOver"}

Players == PlayerIDs(ctx.numPlayers)

rankOf(g, id) == g.players[id].socialRank

\* a step in which a move was accepted (the move's own effect)
MoveAccepted(move) == pc = "idle" /\ pc' = "moved" /\ last'.move = move

\* a step in which a move was rejected
MoveRejected == pc = "idle" /\ pc' = "idle" /\ ~last'.ok

\* the engine's processing after an accepted move of the play phase
PlayHandoff == pc = "moved" /\ pc' = "idle" /\ ctx.phase = "play"

\* the unfinished player that follows id in ascending social rank, wrapping
\* from the worst rank back to the best
followerByRank(g, id) ==
    LET U == unfinishedIDs(g)
        above == {q \in U : rankOf(g, q) > rankOf(g, id)}
    IN  IF above # {}
           THEN CHOOSE q \in above : \A r \in above : rankOf(g, q) <= rankOf(g, r)
           ELSE CHOOSE q \in U : \A r \in U : rankOf(g, q) <= rankOf(g, r)

\* the rank of the card of the deck with this id
cardRank(id) == buildDeck[CHOOSE i \in 1..Len(buildDeck) : buildDeck[i].id = id].rank

\* the effective rank of a list of card ids
effectiveRank(cardIds) ==
    LET normal == {cardRank(cardIds[i]) : i \in 1..Len(cardIds)} \ {0}
    IN  IF normal = {} THEN 13 ELSE CHOOSE r \in normal : TRUE

(***************************************************************************)
(* C1: the only phase changes are lobby -> tax, tax -> play,               *)
(* play -> roundOver and roundOver -> tax (so the lobby is never entered   *)
(* again and play never goes directly to tax), and the match is always in  *)
(* one of the four phases.                                                 *)
(***************************************************************************)
C1_PhaseOrder ==
    [][/\ ctx'.phase \in Phases
       /\ ctx'.phase # ctx.phase =>
             <<ctx.phase, ctx'.phase>> \in
                 {<<"lobby", "tax">>, <<"tax", "play">>,
                  <<"play", "roundOver">>, <<"roundOver", "tax">>}]_vars

\* the second round has reached its play phase
C1_Witness == ctx.phase = "play" /\ G.roundNumber = 2

C3_Acceptable(cardIds) ==
    LET hand == G.players[ctx.currentPlayer].hand
        normal == {cardRank(cardIds[i]) : i \in 1..Len(cardIds)} \ {0}
    IN  /\ Len(cardIds) > 0
        /\ \A i \in 1..Len(cardIds) : cardIds[i] \in handIDs(hand)
        /\ Cardinality(normal) <= 1
        /\ G.currentTrick # NoTrick =>
              /\ Len(cardIds) = G.currentTrick.count
              /\ effectiveRank(cardIds) < G.currentTrick.rank

C3_PlayAccepted ==
    ctx.phase = "play" /\ pc = "idle" =>
        \A cardIds \in CardIdLists(G.players[ctx.currentPlayer].hand) :
            playCards(G, ctx, cardIds).ok <=> C3_Acceptable(cardIds)

\* over an open trick of two cards a play was rejected although the player
\* holds two cards that beat the trick
C3_Witness ==
    /\ ctx.phase = "play" /\ pc = "idle"
    /\ G.currentTrick.count = 2
    /\ last = Rejected("playCards")
    /\ \E cardIds \in CardIdLists(G.players[ctx.currentPlayer].hand) :
          /\ playCards(G, ctx, cardIds).ok
          /\ Cardinality(Range(cardIds)) = 2

(***************************************************************************)
(* C4: right after an accepted playCards or pass the flag pendingNewTrick  *)
(* is raised exactly if a trick is open and every unfinished player other  *)
(* than the last player to play has passed; with four unfinished players,  *)
(* the last player to play among them, exactly at the third pass.          *)
(***************************************************************************)
C4_TrickWon ==
    pc = "moved" /\ last.move \in {"playCards", "pass"} =>
        /\ G.pendingNewTrick <=>
              /\ G.currentTrick # NoTrick
              /\ \A id \in unfinishedIDs(G) \ {G.lastPlayerToPlay} :
                     includes(G.passedPlayers, id)
        /\ Cardinality(unfinishedIDs(G)) = 4 /\ G.lastPlayerToPlay \in unfinishedIDs(G)
              => (G.pendingNewTrick <=> Len(G.passedPlayers) = 3)

\* the third pass of four unfinished players has completed the trick
C4_Witness ==
    /\ pc = "moved" /\ last.move = "pass"
    /\ G.pendingNewTrick
    /\ Cardinality(unfinishedIDs(G)) = 4
    /\ Len(G.passedPlayers) = 3

(***************************************************************************)
(* C5: when a trick is complete and the play phase goes on, the next       *)
(* player is the last player to play if unfinished, and otherwise the      *)
(* unfinished player of the next higher social rank, wrapping to the       *)
(* unfinished player of the best rank.                                     *)
(***************************************************************************)
C5_NextLeader ==
    [][PlayHandoff /\ G.pendingNewTrick /\ ctx'.phase = "play" =>
          ctx'.currentPlayer =
              IF G.lastPlayerToPlay \in unfinishedIDs(G)
                 THEN G.lastPlayerToPlay
                 ELSE followerByRank(G, G.lastPlayerToPlay)]_vars

\* the winner finished on its play and the lead wrapped to a better rank
C5_Witness ==
    /\ ctx.phase = "play" /\ pc = "idle"
    /\ last.move = "pass"
    /\ G.currentTrick = NoTrick
    /\ G.lastPlayerToPlay # null
    /\ G.players[G.lastPlayerToPlay].finished
    /\ rankOf(G, ctx.currentPlayer) < rankOf(G, G.lastPlayerToPlay)

C7_RoundOverState(g) ==
    /\ Len(g.finishOrder) = ctx.numPlayers
    /\ Range(g.finishOrder) = Players
    /\ \A id \in Players : g.players[id].finished
    /\ \A i \in 1..Len(g.finishOrder) :
          /\ rankOf(g, g.finishOrder[i]) = i
          /\ g.players[g.finishOrder[i]].finishPosition = i
          /\ Len(g.players[g.finishOrder[i]].hand) = 0 <=> i < Len(g.finishOrder)

C8_RejectedUnchanged ==
    [][~last'.ok => G' = G /\ ctx' = ctx /\ pc' = pc]_vars

\* a playCards was rejected over an open trick
C8_Witness ==
    /\ last = Rejected("playCards")
    /\ ctx.phase = "play"
    /\ G.currentTrick # NoTrick
    /\ G.passedPlayers # <<>>

(***************************************************************************)
(* C9: a move is accepted only in its phase and from a player that may     *)
(* act: startGame in the lobby and advanceRound in roundOver, from player  *)
(* 0; playCards and pass in play, from the current player; markReady,      *)
(* declareRevolution and giveBackCards in tax.                             *)
(***************************************************************************)
C9_OwnPhase ==
    [][pc = "idle" /\ pc' = "moved" =>
          /\ last'.move = "startGame" =>
                ctx.phase = "lobby" /\ last'.playerID = 0
          /\ last'.move = "advanceRound" =>
                ctx.phase = "roundOver" /\ last'.playerID = 0
          /\ last'.move \in {"playCards", "pass"} =>
                ctx.phase = "play" /\ last'.playerID = ctx.currentPlayer
          /\ last'.move \in {"markReady", "declareRevolution", "giveBackCards"} =>
                ctx.phase = "tax"]_vars

\* advanceRound was accepted from player 0, whose social rank is not 1
C9_Witness ==
    /\ pc = "moved" /\ last.move = "advanceRound"
    /\ last.playerID = 0
    /\ rankOf(G, 0) # 1

(***************************************************************************)
(* C10: after an accepted playCards the hand has shrunk by                 *)
(* currentTrick.count cards, the cards of the trick are the cards that     *)
(* left the hand, currentTrick.playedBy and lastPlayerToPlay are the       *)
(* player and passedPlayers is empty.                                      *)
(***************************************************************************)
C10_CardsMoveToTrick ==
    [][MoveAccepted("playCards") =>
          LET id == ctx.currentPlayer
              before == G.players[id].hand
              after == G'.players[id].hand
              trick == G'.currentTrick
          IN  /\ Len(after) = Len(before) - trick.count
              /\ trick.count = Len(trick.cards)
              /\ \A cd \in Range(before) \cup Range(trick.cards) :
                    Cardinality({i \in 1..Len(before) : before[i] = cd}) =
                        Cardinality({i \in 1..Len(after) : after[i] = cd})
                        + Cardinality({i \in 1..Len(trick.cards) : trick.cards[i] = cd})
              /\ trick.playedBy = id
              /\ G'.lastPlayerToPlay = id
              /\ G'.passedPlayers = <<>>]_vars

(***************************************************************************)
(* C11: an accepted playCards that empties the hand of its player makes    *)
(* the player finished, with finishPosition 1 + the number of players      *)
(* finished before; in every state of the play phase finishOrder lists the *)
(* finished players, each once, the player at index i (from 0) having      *)
(* finishPosition i + 1; a finished player becomes unfinished only when    *)
(* advanceRound sets up the next round.                                    *)
(***************************************************************************)
finishedIDs(g) == DOMAIN g.players \ unfinishedIDs(g)

C11_FinishOrder ==
    [][/\ MoveAccepted("playCards") /\ Len(G'.players[ctx.currentPlayer].hand) = 0 =>
             /\ G'.players[ctx.currentPlayer].finished
             /\ G'.players[ctx.currentPlayer].finishPosition =
                    1 + Cardinality(finishedIDs(G))
       /\ ctx'.phase = "play" =>
             /\ Range(G'.finishOrder) = finishedIDs(G')
             /\ Len(G'.finishOrder) = Cardinality(finishedIDs(G'))
             /\ \A i \in 1..Len(G'.finishOrder) :
                    G'.players[G'.finishOrder[i]].finishPosition = i
       /\ \A id \in finishedIDs(G) \ finishedIDs(G') :
             MoveAccepted("advanceRound")]_vars

\* the second player of a round has finished, by a play of two cards
C11_Witness ==
    /\ ctx.phase = "play" /\ pc = "moved"
    /\ last.move = "playCards" /\ Len(last.cardIds) = 2
    /\ Len(G.finishOrder) = 2
    /\ G.finishOrder[2] = last.playerID

(***************************************************************************)
(* C12: after an accepted startGame and after an accepted advanceRound     *)
(* the tax debts are those of the finish order: with N >= 2 players one of *)
(* 2 cards from its last to its first player, with N >= 4 also one of 1    *)
(* card from its second-to-last to its second player, and no other.        *)
(***************************************************************************)
debtKey(d) == <<d.fromPlayerID, d.toPlayerID, d.count>>

debtKeys(g) == [i \in 1..Len(g.taxDebts) |-> debtKey(g.taxDebts[i])]

playerOfRank(g, r) == CHOOSE id \in DOMAIN g.players : rankOf(g, id) = r

AfterStartGame == pc = "moved" /\ last.move = "startGame"

C13_StartDebts ==
    AfterStartGame =>
        /\ \A r \in 1..ctx.numPlayers :
               \E id \in Players : rankOf(G, id) = r
        /\ ctx.numPlayers = 4 =>
               debtKeys(G) = << <<playerOfRank(G, 4), playerOfRank(G, 1), 2>>,
                                <<playerOfRank(G, 3), playerOfRank(G, 2), 1>> >>
        /\ ctx.numPlayers = 5 =>
               debtKeys(G) = << <<playerOfRank(G, 5), playerOfRank(G, 1), 2>>,
                                <<playerOfRank(G, 4), playerOfRank(G, 2), 1>> >>

\* a match of 5 players was started with a draw that is not the id order
C13_Witness ==
    /\ AfterStartGame
    /\ ctx.numPlayers = 5
    /\ G.finishOrder # playerKeys(5)

\* C13 as stated: with 4 players one debt only (2 cards from rank 4 to
\* rank 1); with 5 players also a debt of 1 card from rank 4 to rank 2
C13_OneDebtOfFour ==
    AfterStartGame =>
        /\ ctx.numPlayers = 4 =>
               debtKeys(G) = << <<playerOfRank(G, 4), playerOfRank(G, 1), 2>> >>
        /\ ctx.numPlayers = 5 =>
               \E i \in 1..Len(G.taxDebts) :
                   debtKey(G.taxDebts[i]) =
                       <<playerOfRank(G, 4), playerOfRank(G, 2), 1>>

selectionRank(cd) == IF cd.rank = 0 THEN 13 ELSE cd.rank

AfterDeal == pc = "moved" /\ last.move \in {"startGame", "advanceRound"}

\* the ids of the cards staged by player id
stagedIDs(g, id) ==
    UNION {handIDs(g.taxDebts[i].offeredCards) :
              i \in {j \in 1..Len(g.taxDebts) : g.taxDebts[j].fromPlayerID = id}}

\* the ids of the cards the deal of this seed gives player id
dealtIDs(seed, id, n) == handIDs(dealTo(Shuffle(buildDeck, seed, 0), 1, id, n))

\* every hand, with what its player has staged, is the hand of one deal
StagedFromDeal ==
    \E seed \in Seeds : \A id \in Players :
        /\ handIDs(G.players[id].hand) \cup stagedIDs(G, id)
              = dealtIDs(seed, id, ctx.numPlayers)
        /\ handIDs(G.players[id].hand) \cap stagedIDs(G, id) = {}
        /\ Len(G.players[id].hand) + Cardinality(stagedIDs(G, id))
              = Cardinality(dealtIDs(seed, id, ctx.numPlayers))

C15_BestCardsStaged ==
    AfterDeal =>
        /\ StagedFromDeal
        /\ \A i \in 1..Len(G.taxDebts) :
              LET debt == G.taxDebts[i]
                  hand == G.players[debt.fromPlayerID].hand
              IN  /\ Len(debt.offeredCards) = debt.count
                  /\ \A j \in 1..Len(debt.offeredCards), k \in 1..Len(hand) :
                        selectionRank(debt.offeredCards[j]) <= selectionRank(hand[k])

\* advanceRound staged a normal card of a payer that keeps a wild card
C15_Witness ==
    /\ pc = "moved" /\ last.move = "advanceRound"
    /\ \E i \in 1..Len(G.taxDebts) :
          /\ G.taxDebts[i].count = 1
          /\ G.taxDebts[i].offeredCards[1].rank # 0
          /\ \E k \in 1..Len(G.players[G.taxDebts[i].fromPlayerID].hand) :
                G.players[G.taxDebts[i].fromPlayerID].hand[k].rank = 0

\* C15 as stated: the staged cards are the numerically highest of the hand
C15_WorstCardsStaged ==
    AfterDeal =>
        \A i \in 1..Len(G.taxDebts) :
            LET debt == G.taxDebts[i]
                hand == G.players[debt.fromPlayerID].hand
            IN  /\ Len(debt.offeredCards) = debt.count
                /\ \A j \in 1..Len(debt.offeredCards), k \in 1..Len(hand) :
                      selectionRank(debt.offeredCards[j]) >= selectionRank(hand[k])

(***************************************************************************)
(* C16: in the tax phase giveBackCards(caller, cardIds) is accepted        *)
(* exactly if a debt to the caller has offered cards outstanding, cardIds  *)
(* has as many ids as the count of that debt, and every id is in the       *)
(* caller's hand; so it is rejected for a resolved debt, for a payer and   *)
(* for a player in no debt.                                                *)
(***************************************************************************)
C16_Acceptable(callerID, cardIds) ==
    \E i \in 1..Len(G.taxDebts) :
        /\ G.taxDebts[i].toPlayerID = callerID
        /\ G.taxDebts[i].offeredCards # <<>>
        /\ Len(cardIds) = G.taxDebts[i].count
        /\ \A k \in 1..Len(cardIds) : cardIds[k] \in handIDs(handOf(G, callerID))

C16_GiveBackAccepted ==
    ctx.phase = "tax" /\ pc = "idle" =>
        /\ \A callerID \in CallerIDs(ctx.numPlayers) :
              \A cardIds \in CardIdLists(handOf(G, callerID)) :
                  giveBackCards(G, callerID, cardIds).ok
                      <=> C16_Acceptable(callerID, cardIds)
        /\ \A i \in 1..Len(G.taxDebts) :
              LET debt == G.taxDebts[i]
              IN  /\ debt.count = 0 =>
                        \A cardIds \in CardIdLists(handOf(G, debt.toPlayerID)) :
                            ~giveBackCards(G, debt.toPlayerID, cardIds).ok
                  /\ \A cardIds \in CardIdLists(handOf(G, debt.fromPlayerID)) :
                        ~giveBackCards(G, debt.fromPlayerID, cardIds).ok

\* a giveBackCards was rejected while one debt is resolved and the other
\* is still outstanding
C16_Witness ==
    /\ ctx.phase = "tax" /\ pc = "idle"
    /\ last = Rejected("giveBackCards")
    /\ \E i, j \in 1..Len(G.taxDebts) :
          /\ G.taxDebts[i].count = 0
          /\ G.taxDebts[j].offeredCards # <<>>

(***************************************************************************)
(* C17: after an accepted giveBackCards the chosen cards are in the        *)
(* payer's hand and not in the receiver's, the offered cards are in the    *)
(* receiver's hand, the debt has count 0 and no offered cards, and both    *)
(* hands have the size of a dealt hand.                                    *)
(***************************************************************************)
\* the number of cards the deal gives player id
dealtSize(id, n) ==
    Cardinality({i \in 1..Len(buildDeck) : (i - 1) % n = id})

C17_CardsExchanged ==
    [][MoveAccepted("giveBackCards") =>
          LET receiver == last'.callerID
              open == {i \in 1..Len(G.taxDebts) :
                          /\ G.taxDebts[i].toPlayerID = receiver
                          /\ G.taxDebts[i].offeredCards # <<>>}
              d == CHOOSE i \in open : \A j \in open : i <= j
              payer == G.taxDebts[d].fromPlayerID
              cardIds == last'.cardIds
          IN  /\ \A k \in 1..Len(cardIds) :
                    /\ cardIds[k] \in handIDs(G'.players[payer].hand)
                    /\ cardIds[k] \notin handIDs(G'.players[receiver].hand)
              /\ handIDs(G.taxDebts[d].offeredCards)
                    \subseteq handIDs(G'.players[receiver].hand)
              /\ G'.taxDebts[d].count = 0
              /\ G'.taxDebts[d].offeredCards = <<>>
              /\ Len(G'.players[receiver].hand) = dealtSize(receiver, ctx.numPlayers)
              /\ Len(G'.players[payer].hand) = dealtSize(payer, ctx.numPlayers)]_vars

(***************************************************************************)
(* C18: in the tax phase declareRevolution(caller) is accepted exactly if  *)
(* the caller is a player and the wild cards of its hand and of the        *)
(* offered cards of the debt it owes are at least 2; a hand that holds no  *)
(* card twice never gives more than 2, so then: exactly if they are 2.     *)
(***************************************************************************)
wildsIn(cards) == Cardinality({k \in 1..Len(cards) : cards[k].rank = 0})

\* the debts a player owes
owedBy(g, id) == {i \in 1..Len(g.taxDebts) : g.taxDebts[i].fromPlayerID = id}

wildCount(g, id) ==
    wildsIn(g.players[id].hand)
    + (IF owedBy(g, id) # {}
          THEN wildsIn(g.taxDebts[CHOOSE i \in owedBy(g, id) :
                           \A j \in owedBy(g, id) : i <= j].offeredCards)
          ELSE 0)

noCardTwice(cards) == Cardinality(handIDs(cards)) = Len(cards)

seedingOrder(g) ==
    IF g.isGreaterRevolution THEN reverse(g.finishOrder) ELSE g.finishOrder

\* in a tax phase finishOrder changes only once, by a greater revolution
ReversedOnce ==
    ctx.phase = "tax" /\ ctx'.phase = "tax" /\ G'.finishOrder # G.finishOrder =>
        /\ MoveAccepted("declareRevolution")
        /\ ~G.isGreaterRevolution /\ G'.isGreaterRevolution

C19_RevolutionEffect ==
    [][/\ ReversedOnce
       /\ MoveAccepted("declareRevolution") =>
             LET caller == last'.callerID
                 seeding == seedingOrder(G)
             IN  /\ G'.taxDebts = <<>>
                 /\ \A id \in Players :
                       /\ Cardinality(owedBy(G, id)) <= 1
                       /\ G'.players[id].hand =
                             G.players[id].hand \o
                             (IF owedBy(G, id) = {} THEN <<>>
                              ELSE G.taxDebts[CHOOSE i \in owedBy(G, id) : TRUE]
                                       .offeredCards)
                 /\ G'.revolutionDeclaredBy = caller
                 /\ caller # seeding[Len(seeding)] =>
                       /\ G'.finishOrder = G.finishOrder
                       /\ \A id \in Players : rankOf(G', id) = rankOf(G, id)
                       /\ G'.isGreaterRevolution = G.isGreaterRevolution]_vars

\* a revolution of a player that is not the last one was accepted, and a
\* payer that is not the caller holds the cards of its deal, the returned
\* one at the end
C19_Witness ==
    /\ pc = "moved" /\ last.move = "declareRevolution"
    /\ ~G.isGreaterRevolution
    /\ last.callerID # G.finishOrder[Len(G.finishOrder)]
    /\ \E seed \in Seeds, id \in Players \ {last.callerID} :
          LET dealt == dealTo(Shuffle(buildDeck, seed, 0), 1, id, ctx.numPlayers)
          IN  /\ handIDs(G.players[id].hand) = handIDs(dealt)
              /\ G.players[id].hand # dealt

(***************************************************************************)
(* C20: after an accepted declareRevolution of the last player of the      *)
(* finish order that seeded the round's taxation, finishOrder is that      *)
(* order reversed, the social rank of a player of rank r in it is          *)
(* N + 1 - r (the caller has rank 1), and isGreaterRevolution is set.      *)
(***************************************************************************)
\* the rank of a player in an order: 1 + its index
rankIn(order, id) == CHOOSE i \in 1..Len(order) : order[i] = id

C20_GreaterRevolution ==
    [][/\ ReversedOnce
       /\ MoveAccepted("declareRevolution")
            /\ last'.callerID = seedingOrder(G)[Len(seedingOrder(G))] =>
             LET N == ctx.numPlayers
                 seeding == seedingOrder(G)
             IN  /\ Len(seeding) = N
                 /\ G'.finishOrder = reverse(seeding)
                 /\ \A id \in Players :
                       /\ rankOf(G', id) = N + 1 - rankIn(seeding, id)
                       /\ ~G.isGreaterRevolution =>
                             rankOf(G', id) = N + 1 - rankOf(G, id)
                 /\ rankOf(G', last'.callerID) = 1
                 /\ G'.isGreaterRevolution]_vars

\* the last player of round 1 has declared a greater revolution in round 2
C20_Witness ==
    /\ pc = "moved" /\ last.move = "declareRevolution"
    /\ G.isGreaterRevolution
    /\ G.roundNumber = 2
    /\ G.finishOrder[1] = last.callerID

(***************************************************************************)
(* C21: in a tax phase in which a debt has been resolved by giveBackCards  *)
(* (its count is 0) no declareRevolution is accepted, even when no hand    *)
(* holds a card twice.                                                     *)
(***************************************************************************)
\* a debt of the tax phase has been resolved by a give-back
someResolved(g) == \E i \in 1..Len(g.taxDebts) : g.taxDebts[i].count = 0

C21_NoRevolutionAfterExchange ==
    /\ ctx.phase = "tax" /\ pc = "idle" /\ someResolved(G)
    /\ \A id \in Players : noCardTwice(G.players[id].hand)
    =>
        \A callerID \in CallerIDs(ctx.numPlayers) :
            ~declareRevolution(G, callerID).ok

(***************************************************************************)
(* C22: markReady is idempotent.  In every idle state of a tax phase and   *)
(* for every caller, markReady applied to the result of markReady gives    *)
(* the same answer and the same state; a markReady that was accepted and   *)
(* processed, sent again, leaves the match as it is; readyPlayers never    *)
(* holds an id twice nor an id that is no player, so it has N entries only *)
(* when every one of the N players is in it.                               *)
(***************************************************************************)
noDuplicates(s) == \A i, j \in 1..Len(s) : s[i] = s[j] => i = j

C22_MarkReadyIdempotent ==
    /\ ctx.phase = "tax" /\ pc = "idle" =>
          \A callerID \in CallerIDs(ctx.numPlayers) :
              LET once == markReady(G, callerID)
                  twice == markReady(once.G, callerID)
              IN  twice.ok = once.ok /\ twice.G = once.G
    /\ ctx.phase = "tax" /\ pc = "moved" /\ last.move = "markReady" =>
          LET once == process(G, ctx)
              again == markReady(once.G, last.callerID)
          IN  once.ctx.phase = "tax" =>
                 /\ again.ok /\ again.G = once.G
                 /\ process(again.G, once.ctx) = once
    /\ noDuplicates(G.readyPlayers)
    /\ Range(G.readyPlayers) \subseteq Players
    /\ Len(G.readyPlayers) = ctx.numPlayers => Range(G.readyPlayers) = Players

\* a player that was ready already has signalled readiness again, and the
\* signal was accepted
C22_Witness ==
    /\ ctx.phase = "tax" /\ pc = "moved" /\ last.move = "markReady"
    /\ Len(G.readyPlayers) >= 2
    /\ includes(G.readyPlayers, last.callerID)
    /\ G.readyPlayers[Len(G.readyPlayers)] # last.callerID

(***************************************************************************)
(* C23: the rank recorded for an accepted play is the one rank of its      *)
(* non-wild cards when it has any, and 13 when all its cards are wild; a   *)
(* play of wild cards only is never accepted over an open trick, and over  *)
(* a trick of wild cards only every play of as many cards of the hand with *)
(* one normal rank among them is accepted.                                 *)
(***************************************************************************)
normalRanks(cards) == {cards[i].rank : i \in 1..Len(cards)} \ {0}

\* a list of ids of cards of the hand, of which at least one is not wild and
\* the non-wild ones have one rank
NormalPlay(hand, cardIds) ==
    /\ \A i \in 1..Len(cardIds) : cardIds[i] \in handIDs(hand)
    /\ Cardinality({cardRank(cardIds[i]) : i \in 1..Len(cardIds)} \ {0}) = 1

C23_EffectiveRank ==
    /\ pc = "moved" /\ last.move = "playCards" =>
          LET trick == G.currentTrick
          IN  /\ trick.cards # <<>>
              /\ normalRanks(trick.cards) # {} =>
                    normalRanks(trick.cards) = {trick.rank}
              /\ normalRanks(trick.cards) = {} => trick.rank = 13
              /\ trick.rank = effectiveRank(last.cardIds)
    /\ ctx.phase = "play" /\ pc = "idle" /\ G.currentTrick # NoTrick =>
          LET hand == G.players[ctx.currentPlayer].hand
          IN  \A cardIds \in CardIdLists(hand) :
                  /\ effectiveRank(cardIds) = 13 => ~playCards(G, ctx, cardIds).ok
                  /\ G.currentTrick.rank = 13 /\ NormalPlay(hand, cardIds)
                        /\ Len(cardIds) = G.currentTrick.count
                        => playCards(G, ctx, cardIds).ok

\* a wild card and a normal card were played together
C23_Witness ==
    /\ pc = "moved" /\ last.move = "playCards"
    /\ G.currentTrick.count = 2
    /\ \E i, j \in 1..2 :
          /\ G.currentTrick.cards[i].rank = 0
          /\ G.currentTrick.cards[j].rank = G.currentTrick.rank

\* a trick of wild cards only is open and the player to act holds a normal card
C23_WildTrickOpen ==
    /\ ctx.phase = "play" /\ pc = "idle"
    /\ G.currentTrick.rank = 13
    /\ \E cardIds \in CardIdLists(G.players[ctx.currentPlayer].hand) :
          /\ NormalPlay(G.players[ctx.currentPlayer].hand, cardIds)
          /\ Len(cardIds) = G.currentTrick.count

(***************************************************************************)
(* C24: a pass sent while no trick is open is rejected and changes         *)
(* nothing; an accepted pass appends the current player to passedPlayers   *)
(* and changes no player (hand, finished, finishPosition), not the trick,  *)
(* not lastPlayerToPlay and not finishOrder.                               *)
(***************************************************************************)
C24_Pass ==
    [][/\ pc = "idle" /\ ctx.phase = "play" /\ G.currentTrick = NoTrick =>
             /\ ~pass(G, ctx).ok
             /\ last'.move = "pass" => ~last'.ok /\ G' = G /\ ctx' = ctx
       /\ MoveAccepted("pass") =>
             /\ G.currentTrick # NoTrick
             /\ G'.passedPlayers = Append(G.passedPlayers, ctx.currentPlayer)
             /\ G'.players = G.players
             /\ G'.currentTrick = G.currentTrick
             /\ G'.lastPlayerToPlay = G.lastPlayerToPlay
             /\ G'.finishOrder = G.finishOrder]_vars

\* a player that could have beaten the trick has passed, as the second one
C24_Witness ==
    /\ pc = "moved" /\ last.move = "pass"
    /\ Len(G.passedPlayers) = 2
    /\ ~G.pendingNewTrick
    /\ \E cardIds \in CardIdLists(G.players[last.playerID].hand) :
          playCards(G, ctx, cardIds).ok

\* the leader of a fresh trick, after a trick was won, had its pass rejected
C24_LeaderMustPlay ==
    /\ pc = "idle" /\ ctx.phase = "play"
    /\ last = Rejected("pass")
    /\ G.currentTrick = NoTrick
    /\ G.lastPlayerToPlay # null

(***************************************************************************)
(* C25: when a turn is handed on within the play phase, the trick and      *)
(* passedPlayers are cleared exactly if the preceding action raised        *)
(* pendingNewTrick; otherwise they are unchanged; nothing else of G        *)
(* changes; and every turn of the play phase begins with the flag lowered, *)
(* the leader of a new trick with no open trick and no passed player.      *)
(***************************************************************************)
C25_HandoffClears ==
    [][/\ PlayHandoff /\ ctx'.phase = "play" =>
             /\ G.currentTrick # NoTrick
             /\ G.pendingNewTrick <=>
                   G'.currentTrick = NoTrick /\ G'.passedPlayers = <<>>
             /\ ~G.pendingNewTrick =>
                   /\ G'.currentTrick = G.currentTrick
                   /\ G'.passedPlayers = G.passedPlayers
             /\ ~G'.pendingNewTrick
             /\ G' = [G EXCEPT !.currentTrick = G'.currentTrick,
                               !.passedPlayers = G'.passedPlayers,
                               !.pendingNewTrick = FALSE]
       /\ ctx'.phase = "play" /\ pc' = "idle" => ~G'.pendingNewTrick]_vars

\* the winner of a trick, with three passes behind it, leads the next one
C25_Witness ==
    /\ ctx.phase = "play" /\ pc = "idle"
    /\ last.move = "pass"
    /\ G.currentTrick = NoTrick /\ G.passedPlayers = <<>>
    /\ G.lastPlayerToPlay = ctx.currentPlayer
    /\ Cardinality(unfinishedIDs(G)) = 4

shiftCard(cd, k) ==
    LET i == CHOOSE j \in 1..Len(buildDeck) : buildDeck[j].id = cd.id
    IN  buildDeck[((i - 1 + k) % Len(buildDeck)) + 1]

shiftCards(cards, k) == [i \in 1..Len(cards) |-> shiftCard(cards[i], k)]

\* the state g with other cards, as many, in the hands of the players other
\* than v and in the offered cards of the debts to v
otherCards(g, v, k) ==
    [g EXCEPT
       !.players = [id \in DOMAIN g.players |->
           IF id = v THEN g.players[id]
           ELSE [g.players[id] EXCEPT !.hand = shiftCards(g.players[id].hand, k)]],
       !.taxDebts = [i \in 1..Len(g.taxDebts) |->
           IF g.taxDebts[i].toPlayerID = v
              THEN [g.taxDebts[i] EXCEPT
                      !.offeredCards = shiftCards(g.taxDebts[i].offeredCards, k)]
              ELSE g.taxDebts[i]]]

Shifts == 0..(Len(buildDeck) - 1)

C27_IncomingHidden ==
    last.move = "playerView" /\ last.playerID # null =>
        \A k \in Shifts :
            playerView(otherCards(G, last.playerID, k), last.playerID) = last.view

\* a receiver views a state that has other states with other offered cards
\* and other hands beside it
C27_Witness ==
    /\ last.move = "playerView"
    /\ last.playerID \in Players
    /\ \E k \in Shifts :
          /\ otherCards(G, last.playerID, k).taxDebts # G.taxDebts
          /\ otherCards(G, last.playerID, k).players # G.players

(***************************************************************************)
(* C28: the deck of the ranks 1..12 has 80 cards, 2 of them wild (rank 0)  *)
(* and r of each rank r of 1..12, with pairwise distinct ids; the deck of  *)
(* the ranks 1..m, for every m up to 12, has 2 wild cards and r cards of   *)
(* each rank r of 1..m, begins the deck of 12 ranks, and the deck a match  *)
(* is dealt from is one of them.                                           *)
(***************************************************************************)
cardsOfRank(deck, r) == Cardinality({i \in 1..Len(deck) : deck[i].rank = r})

WellFormedDeck(deck, m) ==
    /\ Len(deck) = 2 + (m * (m + 1)) \div 2
    /\ cardsOfRank(deck, 0) = 2
    /\ \A r \in 1..m : cardsOfRank(deck, r) = r
    /\ \A i \in 1..Len(deck) : deck[i].rank \in 0..m
    /\ \A i, j \in 1..Len(deck) : deck[i].id = deck[j].id => i = j

\* the cards in the hands and in the offered cards of the debts
cardsOut(g) ==
    UNION {Range(g.players[id].hand) : id \in DOMAIN g.players}
    \cup UNION {Range(g.taxDebts[i].offeredCards) : i \in 1..Len(g.taxDebts)}

\* every deck of up to 12 ranks is well formed and begins the deck of 12
DecksWellFormed ==
    /\ Len(deckOf(DeckRanks)) = 80
    /\ \A m \in 0..DeckRanks :
          /\ WellFormedDeck(deckOf(m), m)
          /\ deckOf(m) = SubSeq(deckOf(DeckRanks), 1, Len(deckOf(m)))

C28_Deck ==
    /\ DecksWellFormed
    /\ MaxRank <= DeckRanks => buildDeck = deckOf(MaxRank)
    /\ AfterDeal => cardsOut(G) = Range(buildDeck)

\* startGame has built a deck and dealt it to 5 players
C28_Witness ==
    /\ AfterStartGame
    /\ ctx.numPlayers = 5
    /\ cardsOut(G) = Range(buildDeck)
    /\ WellFormedDeck(buildDeck, MaxRank)

(***************************************************************************)
(* C29, as the code has it, for a match of 4 players played as the         *)
(* scenario: after startGame two debts exist, of 2 cards and of 1 card,    *)
(* the hand of a receiver has the cards of its deal (20 of the 80 cards of *)
(* the game's deck) and the hand of a payer its deal less the cards staged *)
(* (18 and 19); when every player has signalled readiness and both         *)
(* receivers have given back the required number of cards, every hand has  *)
(* the size of its deal again and the phase becomes play with the player   *)
(* of rank 1 to act and no trick; when the leader has led and the three    *)
(* others have passed, the trick is won by the leader; and the round over  *)
(* phase is entered with a finish order of 4 players.                      *)
(***************************************************************************)
\* the number of cards player id has staged
stagedBy(g, id) ==
    IF owedBy(g, id) = {} THEN 0
    ELSE Len(g.taxDebts[CHOOSE i \in owedBy(g, id) : TRUE].offeredCards)

\* every player is ready and every debt is resolved
TaxDone(g) ==
    /\ \A id \in DOMAIN g.players : includes(g.readyPlayers, id)
    /\ \A i \in 1..Len(g.taxDebts) : g.taxDebts[i].count = 0

C29_Scenario ==
    [][ctx.numPlayers = 4 =>
          /\ Len(deckOf(DeckRanks)) \div 4 = 20
          /\ MoveAccepted("startGame") =>
                /\ [i \in 1..Len(G'.taxDebts) |-> G'.taxDebts[i].count] = <<2, 1>>
                /\ \A id \in Players :
                      /\ Cardinality(owedBy(G', id)) <= 1
                      /\ Len(G'.players[id].hand) + stagedBy(G', id) = dealtSize(id, 4)
                /\ \A i \in 1..Len(G'.taxDebts) :
                      /\ stagedBy(G', G'.taxDebts[i].fromPlayerID) = G'.taxDebts[i].count
                      /\ stagedBy(G', G'.taxDebts[i].toPlayerID) = 0
          /\ ctx.phase = "tax" /\ pc = "moved" =>
                (ctx'.phase = "play" <=> TaxDone(G))
          /\ ctx.phase = "tax" /\ ctx'.phase = "play" =>
                /\ Len(G.taxDebts) = 2
                /\ \A id \in Players : Len(G'.players[id].hand) = dealtSize(id, 4)
                /\ rankOf(G', ctx'.currentPlayer) = 1
                /\ G'.currentTrick = NoTrick
          /\ PlayHandoff /\ firstTrickOpen(G) =>
                /\ G.lastPlayerToPlay = playerOfRank(G, 1)
                /\ G.currentTrick.playedBy = playerOfRank(G, 1)
                /\ G.pendingNewTrick <=> Len(G.passedPlayers) = 3
                /\ Len(G.passedPlayers) = 3 /\ ctx'.phase = "play" =>
                      /\ G'.currentTrick = NoTrick
                      /\ ~G.players[G.lastPlayerToPlay].finished =>
                            ctx'.currentPlayer = G.lastPlayerToPlay
          /\ ctx'.phase = "roundOver" => Len(G'.finishOrder) = 4]_vars

\* the round of the scenario is over, with all 4 players in the finish order
C29_Witness ==
    /\ ctx.phase = "roundOver" /\ pc = "idle"
    /\ ctx.numPlayers = 4
    /\ G.roundNumber = 2
    /\ Len(G.finishOrder) = 4
    /\ Range(G.finishOrder) = Players

\* C29 as stated: after startGame every hand has the cards of its deal
C29_FullHandsAfterStart ==
    AfterStartGame /\ ctx.numPlayers = 4 =>
        \A id \in Players : Len(G.players[id].hand) = dealtSize(id, 4)

(***************************************************************************)
(* C30: once the match is started no card id occurs twice in the hands and *)
(* the offered cards of the debts together, and in the tax phase and when  *)
(* the play phase is entered these hold exactly the cards of the deck.     *)
(***************************************************************************)
\* the places of the cards: index i of the hand of a player or of the
\* offered cards of a debt
cardPlaces(g) ==
    UNION {{<<"hand", id, i>> : i \in 1..Len(g.players[id].hand)} :
               id \in DOMAIN g.players}
    \cup UNION {{<<"debt", d, i>> : i \in 1..Len(g.taxDebts[d].offeredCards)} :
                    d \in 1..Len(g.taxDebts)}

cardAt(g, place) ==
    IF place[1] = "hand" THEN g.players[place[2]].hand[place[3]]
    ELSE g.taxDebts[place[2]].offeredCards[place[3]]

\* the play phase has just been entered
PlayEntered == ctx.phase = "play" /\ G.currentTrick = NoTrick /\ G.lastPlayerToPlay = null

C30_CardsConserved ==
    G.seatOrder # <<>> =>
        /\ \A p, q \in cardPlaces(G) :
              cardAt(G, p).id = cardAt(G, q).id => p = q
        /\ ctx.phase = "tax" \/ PlayEntered =>
              /\ {cardAt(G, p).id : p \in cardPlaces(G)} = CardIDs
              /\ Cardinality(cardPlaces(G)) = Len(buildDeck)

(***************************************************************************)
(* C31: in every state of the play phase that awaits a move, with at least *)
(* two unfinished players, the player to act is unfinished; no handoff of  *)
(* the play phase gives the turn (or the lead of a new trick) to a         *)
(* finished player.                                                        *)
(***************************************************************************)
C31_TurnOfUnfinished ==
    [][/\ ctx.phase = "play" /\ pc = "idle" /\ Cardinality(unfinishedIDs(G)) >= 2 =>
             ctx.currentPlayer \in unfinishedIDs(G)
       /\ PlayHandoff /\ ctx'.phase = "play" =>
             /\ ctx'.currentPlayer \in unfinishedIDs(G')
             /\ finishedIDs(G') = finishedIDs(G)]_vars

\* two players that follow each other in the play order have finished, the
\* second of them in the trick that is still open, and were stepped over
C31_Witness ==
    /\ ctx.phase = "play" /\ pc = "idle"
    /\ G.currentTrick # NoTrick
    /\ G.lastPlayerToPlay \in finishedIDs(G)
    /\ LET n == Len(ctx.playOrder)
           before1 == at(ctx.playOrder, (ctx.playOrderPos + n - 1) % n)
           before2 == at(ctx.playOrder, (ctx.playOrderPos + n - 2) % n)
       IN  /\ before1 = G.lastPlayerToPlay
           /\ before2 \in finishedIDs(G)
    /\ ctx.currentPlayer \in unfinishedIDs(G)

(***************************************************************************)
(* C32: an accepted playCards over an open trick leaves a trick of the     *)
(* same count and of a strictly lower rank; the rank of an open trick is   *)
(* in 1..13, so a contest has at most 13 plays; over a trick of rank 1 no  *)
(* playCards is accepted.                                                  *)
(***************************************************************************)
C32_StrictlyImproving ==
    [][/\ MoveAccepted("playCards") /\ G.currentTrick # NoTrick =>
             /\ G'.currentTrick.count = G.currentTrick.count
             /\ G'.currentTrick.rank < G.currentTrick.rank
       /\ G'.currentTrick # NoTrick =>
             /\ G'.currentTrick.rank \in 1..13
             /\ G'.currentTrick.count >= 1
       /\ ctx.phase = "play" /\ pc = "idle" /\ G.currentTrick # NoTrick
            /\ G.currentTrick.rank = 1 =>
             \A cardIds \in CardIdLists(G.players[ctx.currentPlayer].hand) :
                 ~playCards(G, ctx, cardIds).ok]_vars

\* the player of the worst rank has made its first play of the round, of one
\* card, while nobody has finished: it has beaten an open trick
C32_Witness ==
    /\ ctx.phase = "play" /\ pc = "moved"
    /\ last.move = "playCards" /\ Len(last.cardIds) = 1
    /\ G.revolutionDeclaredBy = null
    /\ G.finishOrder = <<>>
    /\ rankOf(G, last.playerID) = ctx.numPlayers
    /\ Len(G.players[last.playerID].hand) = dealtSize(last.playerID, ctx.numPlayers) - 1
    /\ G.currentTrick.rank < MaxRank

(***************************************************************************)
(* C33: in every reachable state every tax debt offers exactly `count`     *)
(* cards: it is staged in full (count 1 or 2) or resolved (count 0,        *)
(* nothing offered); while the tax phase awaits a move the receiver of     *)
(* every staged debt has a giveBackCards that is accepted.  The hands of   *)
(* the full deck cover the largest debt for 4 to 8 players.                *)
(***************************************************************************)
HandsCoverDebts ==
    \A n \in minPlayers..maxPlayers : Len(deckOf(DeckRanks)) \div n >= 2

C33_DebtsStagedInFull ==
    /\ HandsCoverDebts
    /\ \A i \in 1..Len(G.taxDebts) :
           LET debt == G.taxDebts[i]
           IN  /\ Len(debt.offeredCards) = debt.count
               /\ debt.count \in 0..2
               /\ (debt.count = 0) <=> (debt.offeredCards = <<>>)
               /\ ctx.phase = "tax" /\ pc = "idle" /\ debt.count > 0 =>
                     \E cardIds \in CardIdLists(G.players[debt.toPlayerID].hand) :
                         giveBackCards(G, debt.toPlayerID, cardIds).ok

\* one debt is resolved while the other is still staged in full
C33_Witness ==
    /\ ctx.phase = "tax" /\ pc = "idle"
    /\ \E i, j \in 1..Len(G.taxDebts) :
           /\ G.taxDebts[i].count = 0 /\ G.taxDebts[i].offeredCards = <<>>
           /\ G.taxDebts[j].count = 2 /\ Len(G.taxDebts[j].offeredCards) = 2

ranksOf(g) == [id \in DOMAIN g.players |-> rankOf(g, id)]

\* the step is an accepted declareRevolution of the worst-ranked player
GreaterRevolution ==
    /\ MoveAccepted("declareRevolution")
    /\ Len(G.finishOrder) = ctx.numPlayers
    /\ last'.callerID = G.finishOrder[ctx.numPlayers]

PlayPhaseEnds == PlayHandoff /\ ctx'.phase = "roundOver"

C35_RanksChangeOnlyAt ==
    [][/\ ranksOf(G') # ranksOf(G) =>
              MoveAccepted("startGame") \/ PlayPhaseEnds \/ GreaterRevolution
       /\ \A move \in {"playCards", "pass", "markReady", "giveBackCards",
                       "advanceRound"} :
              MoveAccepted(move) => ranksOf(G') = ranksOf(G)
       /\ MoveAccepted("declareRevolution") /\ ~GreaterRevolution =>
              ranksOf(G') = ranksOf(G)]_vars

\* a revolution of a player other than the worst-ranked one has been accepted
C35_Witness ==
    /\ ctx.phase = "tax" /\ pc = "moved"
    /\ last.move = "declareRevolution"
    /\ G.revolutionDeclaredBy = last.callerID
    /\ ~G.isGreaterRevolution
    /\ rankOf(G, last.callerID) # ctx.numPlayers
    /\ \E id \in Players : rankOf(G, id) # id + 1

(***************************************************************************)
(* C36: in every play state that awaits a move the player to act is        *)
(* unfinished and has an accepted move (every single card of the hand when *)
(* no trick is open, a pass when one is); every accepted playCards or pass *)
(* lowers a measure that is never negative and that the engine's           *)
(* processing does not raise; and every play phase leads to roundOver.     *)
(***************************************************************************)
\* the cards in the hands, then the passes the open trick can still take
playMeasure(g) ==
    cardsInHands(g) * (Cardinality(DOMAIN g.players) + 1)
    + (IF g.currentTrick = NoTrick \/ g.pendingNewTrick THEN 0
       ELSE Cardinality(DOMAIN g.players) - Len(g.passedPlayers))

NeverStuck ==
    ctx.phase = "play" /\ pc = "idle" =>
        LET hand == handOf(G, ctx.currentPlayer)
        IN  /\ ~G.players[ctx.currentPlayer].finished
            /\ hand # <<>>
            /\ canMove(ctx, ctx.currentPlayer, "playCards")
            /\ canMove(ctx, ctx.currentPlayer, "pass")
            /\ ~G.pendingNewTrick
            /\ G.currentTrick = NoTrick =>
                   \A i \in 1..Len(hand) : playCards(G, ctx, <<hand[i].id>>).ok
            /\ G.currentTrick # NoTrick => pass(G, ctx).ok

MeasureFalls ==
    /\ MoveAccepted("playCards") \/ MoveAccepted("pass") =>
           playMeasure(G') < playMeasure(G)
    /\ PlayHandoff /\ ctx'.phase = "play" => playMeasure(G') <= playMeasure(G)
    /\ ctx'.phase = "play" => playMeasure(G') >= 0

C36_PlayTerminates ==
    /\ []NeverStuck
    /\ [][MeasureFalls]_vars
    /\ (ctx.phase = "play" /\ G.roundNumber <= MaxRounds) ~> (ctx.phase = "roundOver")

\* a play phase has ended: every player is finished and has its place
C36_Witness ==
    /\ ctx.phase = "roundOver" /\ pc = "idle"
    /\ G.roundNumber = MaxRounds + 1
    /\ Len(G.finishOrder) = ctx.numPlayers
    /\ unfinishedIDs(G) = {}

(***************************************************************************)
(* C37: in every tax state that awaits a move, markReady of any player     *)
(* followed by any accepted tax move gives the state that the two moves    *)
(* give in the other order, both orders being accepted (two markReady of   *)
(* different players leave the same players ready, in another order of the *)
(* list); the giveBackCards of two different receivers are accepted in     *)
(* both orders and give the same state; and both orders agree on whether   *)
(* the tax phase ends.                                                     *)
(***************************************************************************)
\* the tax moves the callers can send in state g
TaxMoves(g) ==
    {[move |-> "markReady", callerID |-> id, cardIds |-> <<>>] :
        id \in CallerIDs(ctx.numPlayers)}
    \cup {[move |-> "declareRevolution", callerID |-> id, cardIds |-> <<>>] :
        id \in CallerIDs(ctx.numPlayers)}
    \cup UNION {{[move |-> "giveBackCards", callerID |-> id, cardIds |-> ids] :
                    ids \in CardIdLists(handOf(g, id))} :
                id \in CallerIDs(ctx.numPlayers)}

applyTax(g, m) ==
    CASE m.move = "markReady" -> markReady(g, m.callerID)
      [] m.move = "declareRevolution" -> declareRevolution(g, m.callerID)
      [] m.move = "giveBackCards" -> giveBackCards(g, m.callerID, m.cardIds)

\* the state with the ready players as a set
readySet(g) == [g EXCEPT !.readyPlayers = Range(g.readyPlayers)]

\* a then b is accepted wherever b then a is, with the same outcome
commute(g, a, b) ==
    LET ab == applyTax(applyTax(g, a).G, b)
        ba == applyTax(applyTax(g, b).G, a)
    IN  /\ ab.ok /\ ba.ok
        /\ readySet(ab.G) = readySet(ba.G)
        /\ a.move # b.move => ab.G = ba.G
        /\ phaseEndIf("tax", ab.G, ctx) = phaseEndIf("tax", ba.G, ctx)

C37_TaxMovesCommute ==
    ctx.phase = "tax" /\ pc = "idle" =>
        LET accepted == {m \in TaxMoves(G) : applyTax(G, m).ok}
        IN  /\ \A a, b \in accepted :
                  a.move = "markReady" /\ a # b => commute(G, a, b)
            /\ \A a, b \in accepted :
                  /\ a.move = "giveBackCards" /\ b.move = "giveBackCards"
                  /\ a.callerID # b.callerID
                  => /\ commute(G, a, b)
                     /\ applyTax(applyTax(G, a).G, b).G = applyTax(applyTax(G, b).G, a).G

\* both debts are staged, somebody is ready, and a revolution would be accepted
C37_Witness ==
    /\ ctx.phase = "tax" /\ pc = "idle"
    /\ G.readyPlayers # <<>>
    /\ Cardinality({id \in Players : outstandingTo(G, id) # {}}) = 2
    /\ \E id \in Players : declareRevolution(G, id).ok
    /\ \E id \in Players : ~includes(G.readyPlayers, id)

(***************************************************************************)
(* C38: once a greater revolution is recorded, no step that stays in the   *)
(* tax phase changes finishOrder or a social rank; and in every tax state  *)
(* that awaits a move a declareRevolution of the recorded declarer is      *)
(* accepted and leaves the state as it is.                                 *)
(***************************************************************************)
RepeatChangesNothing ==
    ctx.phase = "tax" /\ pc = "idle" /\ G.revolutionDeclaredBy # null =>
        /\ declareRevolution(G, G.revolutionDeclaredBy).ok
        /\ declareRevolution(G, G.revolutionDeclaredBy).G = G

NoSecondFlip ==
    ctx.phase = "tax" /\ G.isGreaterRevolution /\ ctx'.phase = "tax" =>
        /\ G'.finishOrder = G.finishOrder
        /\ ranksOf(G') = ranksOf(G)
        /\ G'.isGreaterRevolution

C38_FlipsAtMostOnce == []RepeatChangesNothing /\ [][NoSecondFlip]_vars

\* after a greater revolution another move of the tax phase has been accepted
C38_Witness ==
    /\ ctx.phase = "tax" /\ pc = "moved"
    /\ G.isGreaterRevolution
    /\ last.move = "markReady"
    /\ last.callerID # G.revolutionDeclaredBy
    /\ rankOf(G, G.revolutionDeclaredBy) = 1

(***************************************************************************)
(* C39: staging takes no wild card from a hand that holds `count` other    *)
(* cards, and with 4 to 8 players every dealt hand of the full deck holds  *)
(* at least 2 cards besides the wild cards: no debt offers a card of rank  *)
(* 0, every debt is staged in full, and the wild cards declareRevolution   *)
(* counts for a player are all in that player's hand.                      *)
(***************************************************************************)
HandsOutnumberWilds ==
    \A n \in minPlayers..maxPlayers :
        (Len(deckOf(DeckRanks)) \div n) - wildsIn(deckOf(DeckRanks)) >= 2

C39_NoWildStaged ==
    /\ HandsOutnumberWilds
    /\ \A i \in 1..Len(G.taxDebts) :
           /\ wildsIn(G.taxDebts[i].offeredCards) = 0
           /\ Len(G.taxDebts[i].offeredCards) = G.taxDebts[i].count
    /\ \A id \in Players : wildCount(G, id) = wildsIn(G.players[id].hand)

\* the debts are staged and the payer of the debt of 2 keeps both wild cards
C39_Witness ==
    /\ Len(G.taxDebts) = 2
    /\ \E i \in 1..Len(G.taxDebts) :
           /\ G.taxDebts[i].count = 2
           /\ Len(G.taxDebts[i].offeredCards) = 2
           /\ wildsIn(G.players[G.taxDebts[i].fromPlayerID].hand) = 2

====
